---- MODULE Spec2Model ----
(***************************************************************************)
(* Model of the MDL <-> OC translator (da0x/oc).                           *)
(*                                                                         *)
(* Text is modelled as TLA+ strings, character by character: positions are *)
(* 1-based (the C++ code is 0-based) and 0 plays the role of npos.         *)
(***************************************************************************)
EXTENDS Integers, Sequences, FiniteSets, TLC

(***************************************************************************)
(* std::string helpers                                                     *)
(***************************************************************************)

\* s[i] as a one-character string
Ch(s, i) == SubSeq(s, i, i)

\* the first position in lo..hi where pat occurs in s, 0 when there is none
\* (the range is halved so that the evaluation stays shallow)
RECURSIVE FirstIn(_, _, _, _)
FirstIn(s, pat, lo, hi) ==
    IF lo > hi THEN 0
    ELSE IF lo = hi
         THEN (IF SubSeq(s, lo, lo + Len(pat) - 1) = pat THEN lo ELSE 0)
    ELSE LET mid == (lo + hi) \div 2
             l == FirstIn(s, pat, lo, mid)
         IN  IF l # 0 THEN l ELSE FirstIn(s, pat, mid + 1, hi)

\* the last position in lo..hi where pat occurs in s, 0 when there is none
RECURSIVE LastIn(_, _, _, _)
LastIn(s, pat, lo, hi) ==
    IF lo > hi THEN 0
    ELSE IF lo = hi
         THEN (IF SubSeq(s, lo, lo + Len(pat) - 1) = pat THEN lo ELSE 0)
    ELSE LET mid == (lo + hi) \div 2
             r == LastIn(s, pat, mid + 1, hi)
         IN  IF r # 0 THEN r ELSE LastIn(s, pat, lo, mid)

\* s.find(pat, from): first position >= from where pat occurs, 0 when absent
Find(s, pat, from) == FirstIn(s, pat, from, Len(s) - Len(pat) + 1)

\* s.rfind(pat): last position where pat occurs, 0 when absent
RFind(s, pat) == LastIn(s, pat, 1, Len(s) - Len(pat) + 1)

StartsWith(s, pat) == Len(pat) <= Len(s) /\ SubSeq(s, 1, Len(pat)) = pat

EndsWith(s, pat) ==
    Len(pat) <= Len(s) /\ SubSeq(s, Len(s) - Len(pat) + 1, Len(s)) = pat

\* while (!s.empty() && s.back() in cs) s.pop_back();
RECURSIVE PopBack(_, _)
PopBack(s, cs) ==
    IF s # "" /\ Ch(s, Len(s)) \in cs THEN PopBack(SubSeq(s, 1, Len(s) - 1), cs)
    ELSE s

\* the characters the model uses, in increasing order of their byte value
ByteOrder ==
    "\t\n\r !\"#$%&'()*+,-./0123456789:;<=>?@ABCDEFGHIJKLMNOPQRSTUVWXYZ[\\]^_abcdefghijklmnopqrstuvwxyz{|}~"

Byte(c) == Find(ByteOrder, c, 1)

\* std::string operator< : lexicographic comparison of the bytes
StrLess(a, b) ==
    \E i \in 1..(Len(b)) :
        /\ i <= Len(a) + 1
        /\ SubSeq(a, 1, i - 1) = SubSeq(b, 1, i - 1)
        /\ (i = Len(a) + 1 \/ Byte(Ch(a, i)) < Byte(Ch(b, i)))

\* the keys of a std::map<std::string, T> in iteration order
RECURSIVE SortedKeys(_)
SortedKeys(S) ==
    IF S = {} THEN << >>
    ELSE LET m == CHOOSE x \in S : \A y \in S \ {x} : StrLess(x, y)
         IN  << m >> \o SortedKeys(S \ {m})

\* m[k] = v on a std::map modelled as a function
MapPut(m, k, v) == [x \in (DOMAIN m) \cup {k} |-> IF x = k THEN v ELSE m[x]]

EmptyMap == [x \in {} |-> ""]

(***************************************************************************)
(* The OPC container: oc_mdl.hpp (reader), metadata_writer.hpp,            *)
(* oc_metadata.hpp / oc_json.hpp (sidecar), mdl_writer.hpp (emitter) and   *)
(* the two drivers mdl_to_oc/main.cpp and oc_to_mdl/main.cpp.              *)
(***************************************************************************)

\* the largest number of parts of an input file
MaxParts == 2

marker == "__MWOPC_PART_BEGIN__ "

\* opc_extractor::load, the loop over the markers; pos is where the next
\* search starts and parts the map filled so far
RECURSIVE load_loop(_, _, _)
load_loop(content, pos, parts) ==
    LET m == Find(content, marker, pos) IN
    IF m = 0 THEN parts
    ELSE
      LET p1 == m + Len(marker)
          path_end == Find(content, "\n", p1)
      IN
      IF path_end = 0 THEN parts
      ELSE
        LET part_line == SubSeq(content, p1, path_end - 1)
            space_pos == Find(part_line, " ", 1)
            cut == IF space_pos # 0 THEN SubSeq(part_line, 1, space_pos - 1)
                                   ELSE part_line
            part_path == PopBack(cut, {"\r", " "})
            p2 == path_end + 1
            next_marker == Find(content, "__MWOPC_PART_BEGIN__", p2)
            raw == IF next_marker # 0 THEN SubSeq(content, p2, next_marker - 1)
                                      ELSE SubSeq(content, p2, Len(content))
            part_content == PopBack(raw, {"\n", "\r", " "})
        IN  load_loop(content, p2, MapPut(parts, part_path, part_content))

\* opc_extractor::load: the parts_ map read from the file text
load(content) == load_loop(content, 1, EmptyMap)

\* opc_extractor::list_parts: the keys of parts_ in the order of the map
list_parts(parts) == SortedKeys(DOMAIN parts)

\* opc_extractor::list_systems
list_systems(parts) ==
    SelectSeq(list_parts(parts),
              LAMBDA path : /\ Find(path, "/simulink/systems/system_", 1) # 0
                            /\ Find(path, ".xml.rels", 1) = 0
                            /\ EndsWith(path, ".xml"))

\* mdl::parser::load, the system id of a system part: the last path
\* component without its extension
system_id(sys_path) ==
    LET last_slash == RFind(sys_path, "/")
        tail == IF last_slash # 0
                THEN SubSeq(sys_path, last_slash + 1, Len(sys_path))
                ELSE sys_path
        dot == RFind(tail, ".")
    IN  IF dot # 0 THEN SubSeq(tail, 1, dot - 1) ELSE tail

\* model::root_system: is there a system with id system_root
has_root_system(parts) ==
    \E i \in 1..Len(list_systems(parts)) :
        system_id(list_systems(parts)[i]) = "system_root"

\* metadata_writer::build_metadata, the part order and the raw parts
build_metadata(parts) ==
    [ part_order |-> list_parts(parts),
      raw_parts  |-> parts ]

\* json::emitter::write_string without the enclosing quotes
RECURSIVE write_string(_)
write_string(s) ==
    IF s = "" THEN ""
    ELSE LET c == Ch(s, 1)
             e == CASE c = "\"" -> "\\\""
                    [] c = "\\" -> "\\\\"
                    [] c = "\n" -> "\\n"
                    [] c = "\r" -> "\\r"
                    [] c = "\t" -> "\\t"
                    [] OTHER    -> c
         IN  e \o write_string(SubSeq(s, 2, Len(s)))

\* read_string with the escapes n, r and t read as the letters themselves
RECURSIVE read_string_letters(_)
read_string_letters(t) ==
    IF t = "" \/ Ch(t, 1) = "\"" THEN ""
    ELSE IF Ch(t, 1) = "\\" THEN
        IF Len(t) < 2 THEN ""
        ELSE Ch(t, 2) \o read_string_letters(SubSeq(t, 3, Len(t)))
    ELSE Ch(t, 1) \o read_string_letters(SubSeq(t, 2, Len(t)))

\* json::parser::read_string on the text between the quotes; the text ends
\* at the first unescaped quote
RECURSIVE read_string(_)
read_string(t) ==
    IF t = "" \/ Ch(t, 1) = "\"" THEN ""
    ELSE IF Ch(t, 1) = "\\" THEN
        IF Len(t) < 2 THEN ""
        ELSE LET c == Ch(t, 2)
                 d == CASE c = "n" -> "\n"
                        [] c = "r" -> "\r"
                        [] c = "t" -> "\t"
                        [] OTHER   -> c
             IN  d \o read_string(SubSeq(t, 3, Len(t)))
    ELSE Ch(t, 1) \o read_string(SubSeq(t, 2, Len(t)))

\* metadata::to_json followed by json::stringify: the string literals of
\* the sidecar document; part_order is left out when it is empty
to_json(meta) ==
    [ has_part_order |-> meta.part_order # << >>,
      part_order |-> [i \in 1..Len(meta.part_order) |->
                          write_string(meta.part_order[i])],
      raw_parts  |-> { << write_string(k), write_string(meta.raw_parts[k]) >> :
                          k \in DOMAIN meta.raw_parts } ]

\* json::parse followed by metadata::from_json
from_json(doc) ==
    LET keys == { read_string(kv[1]) : kv \in doc.raw_parts } IN
    [ part_order |-> IF doc.has_part_order
                     THEN [i \in 1..Len(doc.part_order) |->
                               read_string(doc.part_order[i])]
                     ELSE << >>,
      raw_parts  |-> [k \in keys |->
                        LET kv == CHOOSE kv \in doc.raw_parts :
                                      read_string(kv[1]) = k
                        IN  read_string(kv[2])] ]

mdl_header ==
    "# MathWorks OPC Text Package\nModel {\n  Version  24.2\n  Description \"Simulink model saved in R2024b\"\n}\n__MWOPC_PACKAGE_BEGIN__ R2024b\n"

\* mdl_writer::write_part: the text appended for one part
write_part(path, content) ==
    LET is_base64 == EndsWith(path, ".mxarray") IN
    "__MWOPC_PART_BEGIN__ " \o path
      \o (IF is_base64 THEN " BASE64" ELSE "")
      \o "\n" \o content \o "\n"
      \o (IF ~is_base64 THEN "\n" ELSE "")

RECURSIVE write_parts(_, _)
write_parts(paths, raw_parts) ==
    IF paths = << >> THEN ""
    ELSE (IF Head(paths) \in DOMAIN raw_parts
          THEN write_part(Head(paths), raw_parts[Head(paths)])
          ELSE "")
         \o write_parts(Tail(paths), raw_parts)

\* mdl_writer::write_with_metadata
write_with_metadata(meta) ==
    mdl_header \o
    (IF meta.part_order # << >>
     THEN write_parts(meta.part_order, meta.raw_parts)
     ELSE write_parts(SortedKeys(DOMAIN meta.raw_parts), meta.raw_parts))

(***************************************************************************)
(* The block graph: oc_mdl.hpp (block, endpoint, connection, system) and   *)
(* the forward code generator oc_codegen.hpp.                              *)
(*                                                                         *)
(* A block is a record [type, name, sid, port_out, subsystem_ref,           *)
(* parameters]; only TransferFcn blocks carry parameters (Numerator and    *)
(* Denominator, with integer coefficients), every other parameter lookup   *)
(* of the generator takes its default.  A connection is a record           *)
(* [source, destination, branches], branches being the destinations of     *)
(* its branch elements.  A system is a record [blocks, connections] of     *)
(* the two listings in file order.                                         *)
(***************************************************************************)

Digits == "0123456789"

AlnumChars == "0123456789ABCDEFGHIJKLMNOPQRSTUVWXYZabcdefghijklmnopqrstuvwxyz"

isdigit(c) == Find(Digits, c, 1) # 0

isalnum(c) == Find(AlnumChars, c, 1) # 0

AlphaChars == "ABCDEFGHIJKLMNOPQRSTUVWXYZabcdefghijklmnopqrstuvwxyz"

isalpha(c) == c # "" /\ Find(AlphaChars, c, 1) # 0

\* std::to_string of a non-negative int
RECURSIVE to_string(_)
to_string(n) ==
    IF n < 10 THEN Ch(Digits, n + 1)
    ELSE to_string(n \div 10) \o Ch(Digits, (n % 10) + 1)

\* the value of the longest prefix of digits of s, the digits read so far
\* being acc
RECURSIVE stoi_digits(_, _)
stoi_digits(s, acc) ==
    IF s = "" \/ ~isdigit(Ch(s, 1)) THEN acc
    ELSE stoi_digits(SubSeq(s, 2, Len(s)), 10 * acc + (Find(Digits, Ch(s, 1), 1) - 1))

\* s without its leading white space
RECURSIVE skip_space(_)
skip_space(s) ==
    IF s # "" /\ Ch(s, 1) \in {" ", "\t", "\n", "\r"}
    THEN skip_space(SubSeq(s, 2, Len(s)))
    ELSE s

\* a reading of the index that takes its first digit only
stoi_one_digit(s) ==
    IF s = "" \/ ~isdigit(Ch(s, 1)) THEN [throws |-> TRUE, value |-> 0]
    ELSE [throws |-> FALSE, value |-> Find(Digits, Ch(s, 1), 1) - 1]

\* std::stoi: leading blanks are skipped, then an optional sign and the
\* digits are read; without a digit it throws std::invalid_argument
stoi(s) ==
    LET t == skip_space(s)
        body == IF t # "" /\ Ch(t, 1) \in {"+", "-"} THEN SubSeq(t, 2, Len(t)) ELSE t
    IN  IF body = "" \/ ~isdigit(Ch(body, 1))
        THEN [throws |-> TRUE, value |-> 0]
        ELSE [throws |-> FALSE,
              value |-> IF Ch(t, 1) = "-" THEN 0 - stoi_digits(body, 0)
                                          ELSE stoi_digits(body, 0)]

\* endpoint::parse: nullopt without '#' or without ':' after it; the index
\* is read by std::stoi, which may throw
endpoint_parse(spec) ==
    LET hash_pos == Find(spec, "#", 1)
        colon_pos == IF hash_pos = 0 THEN 0 ELSE Find(spec, ":", hash_pos)
    IN  IF hash_pos = 0 \/ colon_pos = 0
        THEN [ok |-> FALSE, throws |-> FALSE, block_sid |-> "", port_type |-> "",
              port_index |-> 1]
        ELSE LET idx == stoi(SubSeq(spec, colon_pos + 1, Len(spec))) IN
             [ok |-> ~idx.throws, throws |-> idx.throws,
              block_sid |-> SubSeq(spec, 1, hash_pos - 1),
              port_type |-> SubSeq(spec, hash_pos + 1, colon_pos - 1),
              port_index |-> idx.value]

\* codegen::sanitize_name without the leading underscore: letters, digits
\* and '_' are kept, ' ' and '-' become '_', everything else is dropped
RECURSIVE sanitize_chars(_)
sanitize_chars(name) ==
    IF name = "" THEN ""
    ELSE LET c == Ch(name, 1)
             r == IF isalnum(c) \/ c = "_" THEN c
                  ELSE IF c = " " \/ c = "-" THEN "_"
                  ELSE ""
         IN  r \o sanitize_chars(SubSeq(name, 2, Len(name)))

\* sanitize_name without the test of the first character
sanitize_name_unprefixed(name) == sanitize_chars(name)

\* codegen::sanitize_name
sanitize_name(name) ==
    LET result == sanitize_chars(name) IN
    IF result # "" /\ isdigit(Ch(result, 1)) THEN "_" \o result ELSE result

is_inport(blk) == blk.type = "Inport"

is_outport(blk) == blk.type = "Outport"

is_subsystem(blk) == blk.type = "SubSystem"

\* the stateful block types of generate_system_code
is_stateful(blk) ==
    blk.type \in {"UnitDelay", "Integrator", "DiscreteIntegrator", "Memory"}

\* system::find_block_by_sid: the position of the first block of the
\* listing with that sid, 0 for nullptr
find_block_by_sid(sys, sid) ==
    IF \E i \in 1..Len(sys.blocks) : sys.blocks[i].sid = sid
    THEN CHOOSE i \in 1..Len(sys.blocks) :
            /\ sys.blocks[i].sid = sid
            /\ \A j \in 1..(i - 1) : sys.blocks[j].sid # sid
    ELSE 0

\* system::inports / system::outports: the blocks of a kind in listing
\* order; without Port parameters the sort of the generator leaves the
\* order unchanged
inports(sys) == SelectSeq(sys.blocks, is_inport)

outports(sys) == SelectSeq(sys.blocks, is_outport)

\* m with the entries of n written over it
Override(m, n) ==
    [x \in (DOMAIN m) \cup (DOMAIN n) |-> IF x \in DOMAIN n THEN n[x] ELSE m[x]]

\* var_prefix of a block under a prefix
var_prefix_of(prefix, blk) ==
    IF prefix = "" THEN sanitize_name(blk.name)
    ELSE prefix \o "_" \o sanitize_name(blk.name)

out_key(sid, i) == sid \o "#out:" \o to_string(i)

\* generator::max_inline_depth_
max_inline_depth == 10

\* a depth test that lets one more level through
past_inline_depth_late(depth) == depth > max_inline_depth + 1

\* if (depth > max_inline_depth_)
past_inline_depth(depth) == depth > max_inline_depth

SetMax(S) == CHOOSE i \in S : \A j \in S : j <= i

\* generate_system_code, state_sids: the sids of the stateful blocks
state_sids_of(sys) ==
    { sys.blocks[i].sid : i \in { j \in 1..Len(sys.blocks) : is_stateful(sys.blocks[j]) } }

\* generate_system_code, state_var_map[sid] ("" when the map has no entry):
\* the last stateful block of the listing with that sid gives the name
state_var_of(sys, prefix, sid) ==
    IF \E i \in 1..Len(sys.blocks) : is_stateful(sys.blocks[i]) /\ sys.blocks[i].sid = sid
    THEN "state."
           \o var_prefix_of(prefix,
                sys.blocks[SetMax({ i \in 1..Len(sys.blocks) :
                             is_stateful(sys.blocks[i]) /\ sys.blocks[i].sid = sid })])
           \o "_state"
    ELSE ""

\* generate_system_code, the output names one block adds to signal_map; vp
\* is the var_prefix of the block
block_signals(sys, prefix, blk, vp) ==
    LET name(i) ==
            IF is_subsystem(blk) THEN vp \o "_out" \o to_string(i)
            ELSE IF blk.sid \in state_sids_of(sys) THEN state_var_of(sys, prefix, blk.sid)
            ELSE IF blk.port_out > 1 THEN vp \o "_" \o to_string(i)
            ELSE vp
    IN  [k \in { out_key(blk.sid, i) : i \in 1..blk.port_out } |->
            name(CHOOSE i \in 1..blk.port_out : out_key(blk.sid, i) = k)]

\* generate_system_code, "Assign output variable names for all blocks":
\* signal_map after the first n blocks of the listing
RECURSIVE assign_signals(_, _, _, _)
assign_signals(sys, prefix, signal_map, n) ==
    IF n = 0 THEN signal_map
    ELSE IF is_inport(sys.blocks[n]) \/ is_outport(sys.blocks[n])
    THEN assign_signals(sys, prefix, signal_map, n - 1)
    ELSE Override(assign_signals(sys, prefix, signal_map, n - 1),
                  block_signals(sys, prefix, sys.blocks[n],
                                var_prefix_of(prefix, sys.blocks[n])))

\* the destinations add_connection is called with for one connection
conn_dests(conn) ==
    (IF conn.destination # "" THEN << conn.destination >> ELSE << >>)
        \o conn.branches

\* generate_system_code, the lambda add_connection for a destination that
\* has been parsed; st holds dependencies, block_inputs and whether an
\* exception or undefined behaviour occurred
add_parsed(st, sys, src, src_var, dst) ==
    LET \* inputs.resize(port_index) when it is shorter, then
        \* inputs[port_index - 1] = src_var
        set_input(inputs) ==
            [i \in 1..(IF Len(inputs) < dst.port_index THEN dst.port_index
                       ELSE Len(inputs)) |->
                IF i = dst.port_index THEN src_var
                ELSE IF i <= Len(inputs) THEN inputs[i] ELSE ""]
        is_dependency ==
            /\ dst.block_sid \in DOMAIN st.dependencies
            /\ ~(\E i \in 1..Len(sys.blocks) :
                    /\ i = find_block_by_sid(sys, src.block_sid)
                    /\ is_inport(sys.blocks[i]))
            /\ src.block_sid \notin state_sids_of(sys)
    IN  IF st.fault # "none" THEN st
        ELSE IF dst.throws THEN [st EXCEPT !.fault = "throws"]
        ELSE IF ~dst.ok THEN st
        ELSE IF dst.port_index < 1 THEN [st EXCEPT !.fault = "undefined"]
        ELSE [ block_inputs |->
                   MapPut(st.block_inputs, dst.block_sid,
                          set_input(IF dst.block_sid \in DOMAIN st.block_inputs
                                    THEN st.block_inputs[dst.block_sid] ELSE << >>)),
               dependencies |->
                   IF is_dependency
                   THEN [st.dependencies EXCEPT ![dst.block_sid] = @ \cup {src.block_sid}]
                   ELSE st.dependencies,
               fault |-> "none" ]

\* add_connection for each destination of a connection
RECURSIVE add_connections(_, _, _, _, _)
add_connections(st, sys, src, src_var, dsts) ==
    IF dsts = << >> THEN st
    ELSE add_connections(add_parsed(st, sys, src, src_var, endpoint_parse(Head(dsts))),
                         sys, src, src_var, Tail(dsts))

\* generate_system_code, the body of the loop over the connections for a
\* connection whose source has been parsed
add_conn(st, sys, signal_map, conn, src) ==
    LET src_var(src_key) ==
            IF src_key \in DOMAIN signal_map THEN signal_map[src_key]
            ELSE "0.0f /* unknown */"
    IN  IF st.fault # "none" THEN st
        ELSE IF src.throws THEN [st EXCEPT !.fault = "throws"]
        ELSE IF ~src.ok THEN st
        ELSE add_connections(st, sys, src, src_var(out_key(src.block_sid, src.port_index)),
                             conn_dests(conn))

\* the sids of the blocks that are no Inport
non_inport_sids(sys) ==
    { sys.blocks[i].sid : i \in { j \in 1..Len(sys.blocks) : ~is_inport(sys.blocks[j]) } }

\* generate_system_code, "Build dependencies and input mappings": the loop
\* over the first n connections of the listing
RECURSIVE build_dependencies(_, _, _)
build_dependencies(sys, signal_map, n) ==
    IF n = 0
    THEN [ dependencies |-> [s \in non_inport_sids(sys) |-> {}],
           block_inputs |-> [s \in non_inport_sids(sys) |-> << >>],
           fault |-> "none" ]
    ELSE add_conn(build_dependencies(sys, signal_map, n - 1), sys, signal_map,
                  sys.connections[n], endpoint_parse(sys.connections[n].source))

\* the scheduler with every block taken to be ready at the start
in_degree_none(sys, dependencies) == [s \in DOMAIN dependencies |-> 0]

\* generate_system_code, "Topological sort": in_degree
in_degree_of(sys, dependencies) ==
    [s \in DOMAIN dependencies |->
        Cardinality({ dep \in dependencies[s] :
                        \E i \in 1..Len(sys.blocks) :
                            /\ i = find_block_by_sid(sys, dep)
                            /\ ~is_inport(sys.blocks[i]) })]

\* the ready queue is seeded in the order of the in_degree map
ready_seed(in_degree) ==
    SelectSeq(SortedKeys(DOMAIN in_degree), LAMBDA s : in_degree[s] = 0)

\* the seed taken in the order of the block listing instead
ready_seed_listed(sys, in_degree) ==
    SelectSeq([i \in 1..Len(sys.blocks) |-> sys.blocks[i].sid],
              LAMBDA s : s \in DOMAIN in_degree /\ in_degree[s] = 0)

\* the while loop over the ready queue
RECURSIVE kahn(_, _, _, _)
kahn(ready, dependencies, in_degree, sorted_sids) ==
    LET \* the blocks whose in_degree falls to 0 when sid leaves the queue, in
        \* the order of the dependencies map
        released(sid) ==
            SelectSeq(SortedKeys({ o \in DOMAIN dependencies : sid \in dependencies[o] }),
                      LAMBDA o : in_degree[o] = 1)
    IN  IF ready = << >> THEN sorted_sids
        ELSE kahn(Tail(ready) \o released(Head(ready)),
                  [o \in DOMAIN dependencies |-> dependencies[o] \ {Head(ready)}],
                  [o \in DOMAIN in_degree |->
                      IF Head(ready) \in dependencies[o] THEN in_degree[o] - 1
                      ELSE in_degree[o]],
                  sorted_sids \o << Head(ready) >>)

\* the scheduler with the ready queue seeded in listing order
schedule_listed(sys, dependencies, in_degree) ==
    kahn(ready_seed_listed(sys, in_degree), dependencies, in_degree, << >>)

\* generate_system_code, the scheduler: sorted_sids from in_degree
schedule(sys, dependencies, in_degree) ==
    kahn(ready_seed(in_degree), dependencies, in_degree, << >>)

\* generate_block_code, the lambda get_input; k is idx + 1
get_input(inputs, k) ==
    IF k <= Len(inputs) /\ inputs[k] # "" THEN inputs[k]
    ELSE "0.0f /* missing input " \o to_string(k) \o " */"

\* generate_block_code, Sum: the operands for the rest of the Inputs
\* string, input_idx operands having been written
RECURSIVE sum_terms(_, _, _, _)
sum_terms(inputs_spec, inputs, input_idx, first) ==
    IF inputs_spec = "" THEN ""
    ELSE LET c == Ch(inputs_spec, 1)
             rest == SubSeq(inputs_spec, 2, Len(inputs_spec))
         IN  IF c = "+" \/ c = "-"
             THEN (IF ~first THEN " " ELSE "")
                  \o (IF c = "-" THEN "- " ELSE IF ~first THEN "+ " ELSE "")
                  \o get_input(inputs, input_idx + 1)
                  \o sum_terms(rest, inputs, input_idx + 1, FALSE)
             ELSE sum_terms(rest, inputs, input_idx, first)

\* generate_block_code, Demux: the entries written into signal_map
demux_signals(blk, inputs) ==
    [k \in { out_key(blk.sid, i) : i \in 1..blk.port_out } |->
        get_input(inputs, 1) \o " /* demux "
          \o to_string(CHOOSE i \in 1..blk.port_out : out_key(blk.sid, i) = k)
          \o " */"]

\* block::param with a default
param_or(blk, name, def) ==
    IF name \in DOMAIN blk.parameters THEN blk.parameters[name] ELSE def

\* the text of an integer as operator<< writes a double of that value
format_coeff(v) == IF v < 0 THEN "-" \o to_string(0 - v) ELSE to_string(v)

\* format_float of a double with an integer value: fixed, six decimals
format_float(val) == format_coeff(val) \o ".000000f"

\* the numbers "iss >> val" reads from s until an extraction fails; the
\* numbers of the model are integers written without a fraction
RECURSIVE read_doubles(_)
read_doubles(s) ==
    LET t == skip_space(s)
        signed == t # "" /\ Ch(t, 1) \in {"+", "-"}
        body == IF signed THEN SubSeq(t, 2, Len(t)) ELSE t
        digits == CHOOSE n \in 0..Len(body) :
                     /\ \A i \in 1..n : isdigit(Ch(body, i))
                     /\ n < Len(body) => ~isdigit(Ch(body, n + 1))
    IN  IF digits = 0 THEN << >>
        ELSE << stoi(t).value >> \o read_doubles(SubSeq(body, digits + 1, Len(body)))

\* transfer_function::parse_coefficients
parse_coefficients(str) ==
    LET kept == SelectSeq([i \in 1..Len(str) |-> Ch(str, i)],
                          LAMBDA c : c \notin {"[", "]"})
        spaced == [i \in 1..Len(kept) |-> IF kept[i] \in {",", ";"} THEN " " ELSE kept[i]]
        RECURSIVE join(_)
        join(cs) == IF cs = << >> THEN "" ELSE Head(cs) \o join(Tail(cs))
    IN  read_doubles(join(spaced))

VARIABLES
    beyond       \* what the memory past the end of a coefficient vector holds

\* v[i - 1] of a std::vector<double>: an element, or past the end whatever
\* the memory holds there
coeff_at(v, i) == IF i \in 1..Len(v) THEN v[i] ELSE beyond

\* codegen::parse_transfer_function
parse_transfer_function(blk) ==
    LET num == parse_coefficients(param_or(blk, "Numerator", "[1]"))
        den == parse_coefficients(param_or(blk, "Denominator", "[1]"))
    IN  [num |-> num, den |-> den,
         order |-> IF Len(den) - 1 < 1 THEN 1 ELSE Len(den) - 1]

\* generate_block_code for a TransferFcn: the elements of tf.num and tf.den
\* it reads, as pairs of the vector and the index from 1
coeff_reads(tf) ==
    LET n == Len(tf.num)
        d == Len(tf.den)
    IN  IF tf.order = 1
        THEN { << "num", i >> : i \in { k \in 1..2 : k <= n } }
               \cup { << "den", i >> : i \in { k \in 1..2 : k <= d } }
        ELSE IF tf.order = 2
        THEN { << "num", i >> : i \in IF n > 2 THEN {1, 2, 3} ELSE IF n > 1 THEN {1, 2} ELSE {1} }
               \cup { << "den", i >> : i \in {1} \cup { k \in 2..3 : k <= d } }
        ELSE {}

\* does the emission for tf read an element its vector does not have
reads_past_end(tf) ==
    \E r \in coeff_reads(tf) : r[2] > Len(IF r[1] = "num" THEN tf.num ELSE tf.den)

\* generate_block_code for a TransferFcn: the lines written after the
\* comment line
transfer_fcn_code(blk, tf, in1, out_var, state_prefix) ==
    LET n == Len(tf.num)
        d == Len(tf.den)
        first ==
            LET b0 == IF n > 1 THEN tf.num[1] ELSE 0
                b1 == IF n > 1 THEN tf.num[2] ELSE IF n = 1 THEN tf.num[1] ELSE 1
                a0 == IF d > 0 THEN tf.den[1] ELSE 0
                a1 == IF d > 1 THEN tf.den[2] ELSE 1
            IN  << "    float k = 2.0f / cfg.dt;",
                   "    float b0_d = " \o format_float(b0) \o " * k + " \o format_float(b1) \o ";",
                   "    float b1_d = -" \o format_float(b0) \o " * k + " \o format_float(b1) \o ";",
                   "    float a0_d = " \o format_float(a0) \o " * k + " \o format_float(a1) \o ";",
                   "    float a1_d = -" \o format_float(a0) \o " * k + " \o format_float(a1) \o ";",
                   "    float u_n = " \o in1 \o ";",
                   "    float y_n = (b0_d * u_n + b1_d * " \o state_prefix \o "u0 - a1_d * "
                       \o state_prefix \o "x0) / a0_d;",
                   "    " \o state_prefix \o "u0 = u_n;",
                   "    " \o state_prefix \o "x0 = y_n;",
                   "}",
                   "auto " \o out_var \o " = " \o state_prefix \o "x0;" >>
        second ==
            LET b0 == IF n = 1 THEN 0 ELSE IF n > 2 THEN tf.num[1] ELSE 0
                b1 == IF n = 1 THEN 0 ELSE IF n > 2 THEN tf.num[2]
                      ELSE IF n > 1 THEN tf.num[1] ELSE 0
                b2 == IF n = 1 THEN tf.num[1] ELSE IF n > 2 THEN tf.num[3]
                      ELSE IF n > 1 THEN tf.num[2] ELSE coeff_at(tf.num, 1)
                a0 == coeff_at(tf.den, 1)
                a1 == IF d > 1 THEN tf.den[2] ELSE 0
                a2 == IF d > 2 THEN tf.den[3] ELSE 1
                quad(c0, c1, c2, op) ==
                    format_float(c0) \o "*k2 " \o op \o " " \o format_float(c1) \o "*k + "
                      \o format_float(c2) \o ";"
                mid(c0, c2) ==
                    "2.0f*" \o format_float(c2) \o " - 2.0f*" \o format_float(c0) \o "*k2;"
            IN  << "    float k = 2.0f / cfg.dt;",
                   "    float k2 = k * k;",
                   "    float b0_d = " \o quad(b0, b1, b2, "+"),
                   "    float b1_d = " \o mid(b0, b2),
                   "    float b2_d = " \o quad(b0, b1, b2, "-"),
                   "    float a0_d = " \o quad(a0, a1, a2, "+"),
                   "    float a1_d = " \o mid(a0, a2),
                   "    float a2_d = " \o quad(a0, a1, a2, "-"),
                   "    float u_n = " \o in1 \o ";",
                   "    float y_n = (b0_d*u_n + b1_d*" \o state_prefix \o "u0 + b2_d*"
                       \o state_prefix \o "u1 - a1_d*" \o state_prefix \o "x0 - a2_d*"
                       \o state_prefix \o "x1) / a0_d;",
                   "    " \o state_prefix \o "u1 = " \o state_prefix \o "u0;",
                   "    " \o state_prefix \o "u0 = u_n;",
                   "    " \o state_prefix \o "x1 = " \o state_prefix \o "x0;",
                   "    " \o state_prefix \o "x0 = y_n;",
                   "}",
                   "auto " \o out_var \o " = " \o state_prefix \o "x0;" >>
        higher ==
            << "    // Order " \o to_string(tf.order) \o " transfer function not yet supported",
               "}",
               "auto " \o out_var \o " = " \o in1 \o ";" >>
    IN  << "// TransferFcn: " \o blk.name \o " (order " \o to_string(tf.order) \o ")",
           "{" >>
          \o (IF tf.order = 1 THEN first ELSE IF tf.order = 2 THEN second ELSE higher)

\* replace_all of format_param_value: every occurrence of from, from
\* position pos on, that is a whole word becomes to
RECURSIVE replace_all(_, _, _, _)
replace_all(str, from, to, pos) ==
    LET at == Find(str, from, pos) IN
    IF at = 0 THEN str
    ELSE LET word_start == at = 1 \/ ~isalnum(Ch(str, at - 1))
             word_end == at + Len(from) > Len(str) \/ ~isalnum(Ch(str, at + Len(from)))
         IN  IF word_start /\ word_end
             THEN replace_all(SubSeq(str, 1, at - 1) \o to
                                \o SubSeq(str, at + Len(from), Len(str)),
                              from, to, at + Len(to))
             ELSE replace_all(str, from, to, at + Len(from))

\* generator::format_param_value
format_param_value(value) ==
    LET result ==
            replace_all(
                replace_all(replace_all(value, "pi", "3.14159265358979f", 1),
                            "inf", "std::numeric_limits<float>::infinity()", 1),
                "eps", "std::numeric_limits<float>::epsilon()", 1)
        is_identifier ==
            /\ result # ""
            /\ isalpha(Ch(result, 1))
            /\ \A i \in 1..Len(result) : isalnum(Ch(result, i)) \/ Ch(result, i) = "_"
    IN  IF value = "" THEN "0.0f"
        ELSE IF is_identifier THEN "cfg." \o result
        ELSE result

\* get_param of generate_block_code
get_param(blk, name, def) ==
    IF name \in DOMAIN blk.parameters THEN format_param_value(blk.parameters[name])
    ELSE def

\* generate_block_code, Switch: the condition for the Criteria parameter
switch_cond(criteria, in2, threshold) ==
    IF Find(criteria, ">=", 1) # 0 THEN in2 \o " >= " \o threshold
    ELSE IF Find(criteria, ">", 1) # 0 THEN in2 \o " > " \o threshold
    ELSE IF Find(criteria, "!=", 1) # 0 \/ Find(criteria, "~=", 1) # 0
    THEN in2 \o " != " \o threshold
    ELSE in2 \o " != 0.0f"

\* generate_block_code for a block that is not a SubSystem: the lines
\* written after the comment line
block_statement(blk, inputs, out_var, state_var) ==
    LET in1 == get_input(inputs, 1) IN
    CASE blk.type = "Switch" ->
            << "auto " \o out_var \o " = ("
                 \o switch_cond(param_or(blk, "Criteria", "u2 >= Threshold"),
                                get_input(inputs, 2), get_param(blk, "Threshold", "0.0f"))
                 \o ") ? " \o in1 \o " : " \o get_input(inputs, 3) \o ";" >>
      [] blk.type = "Gain" ->
            << "auto " \o out_var \o " = " \o in1 \o " * "
                 \o get_param(blk, "Gain", "1.0f") \o ";" >>
      [] blk.type = "Sum" ->
            << "auto " \o out_var \o " = "
                 \o sum_terms(param_or(blk, "Inputs", "++"), inputs, 0, TRUE) \o ";" >>
      [] blk.type = "Abs" ->
            << "auto " \o out_var \o " = std::abs(" \o in1 \o ");" >>
      [] blk.type = "Constant" ->
            << "auto " \o out_var \o " = " \o get_param(blk, "Value", "0.0f") \o ";" >>
      [] blk.type \in {"UnitDelay", "Memory"} ->
            << state_var \o " = " \o in1 \o ";  // update for next step" >>
      [] blk.type \in {"Integrator", "DiscreteIntegrator"} ->
            << state_var \o " += " \o in1 \o " * cfg.dt;" >>
      [] blk.type = "Derivative" ->
            << "auto " \o out_var \o " = " \o in1
                 \o "; // TODO: Derivative needs previous value" >>
      [] blk.type = "Demux" -> << >>
      [] blk.type = "Mux" ->
            << "auto " \o out_var \o " = " \o in1 \o "; // Mux" >>
      [] OTHER ->
            << "auto " \o out_var \o " = " \o in1 \o "; // TODO: " \o blk.type >>

\* the destination strings check_dst is called with for one connection
check_dsts(conn) == << conn.destination >> \o conn.branches

\* does scanning the connections for the source of outport outp throw
outport_scan_throws(sys, outp) ==
    \E n \in 1..Len(sys.connections) :
        \E j \in 1..Len(check_dsts(sys.connections[n])) :
            LET dst == endpoint_parse(check_dsts(sys.connections[n])[j]) IN
            \/ dst.throws
            \/ /\ dst.ok
               /\ dst.block_sid = outp.sid
               /\ endpoint_parse(sys.connections[n].source).throws

\* generate_subsystem_inline, outport_value: the scan of the first n
\* connections; the last connection that ends at the outport and whose
\* source is in the map gives the value
RECURSIVE outport_value(_, _, _, _)
outport_value(subsys, sub_signal_map, outp, n) ==
    IF n = 0 THEN "0.0f /* unmapped outport */"
    ELSE LET conn == subsys.connections[n]
             src == endpoint_parse(conn.source)
             src_key == out_key(src.block_sid, src.port_index)
             hits == \E j \in 1..Len(check_dsts(conn)) :
                        LET dst == endpoint_parse(check_dsts(conn)[j])
                        IN  dst.ok /\ dst.block_sid = outp.sid
         IN  IF hits /\ src.ok /\ src_key \in DOMAIN sub_signal_map
             THEN sub_signal_map[src_key]
             ELSE outport_value(subsys, sub_signal_map, outp, n - 1)

\* generate_subsystem_inline, the inports mapped to the inputs of the block
subsystem_inputs(subsys, inputs) ==
    LET inps == inports(subsys)
        val(i) == IF i <= Len(inputs) /\ inputs[i] # "" THEN inputs[i]
                  ELSE "0.0f /* missing subsystem input */"
    IN  [k \in { out_key(inps[i].sid, 1) : i \in 1..Len(inps) } |->
            val(SetMax({ i \in 1..Len(inps) : out_key(inps[i].sid, 1) = k }))]

\* generate_subsystem_inline, "Map subsystem outports to the parent signal
\* map": the loop over the first n outports; acc holds the parent map, the
\* code and the fault
RECURSIVE map_outports(_, _, _, _, _, _)
map_outports(subsys, blk, var_prefix, sub_signal_map, acc, n) ==
    IF n = 0 THEN acc
    ELSE LET before == map_outports(subsys, blk, var_prefix, sub_signal_map, acc, n - 1)
             outp == outports(subsys)[n]
             value == outport_value(subsys, sub_signal_map, outp, Len(subsys.connections))
             alias_var == var_prefix \o "_out" \o to_string(n)
         IN  IF before.fault # "none" THEN before
             ELSE IF outport_scan_throws(subsys, outp)
             THEN [before EXCEPT !.fault = "throws"]
             ELSE [ signal_map |-> MapPut(before.signal_map, out_key(blk.sid, n), alias_var),
                    code |-> before.code \o << "auto " \o alias_var \o " = " \o value \o ";" >>,
                    fault |-> "none" ]

RECURSIVE generate_system_code(_, _, _, _, _, _)
RECURSIVE emit_blocks(_, _, _, _, _, _, _)
RECURSIVE generate_block_code(_, _, _, _, _, _, _, _, _)
RECURSIVE generate_subsystem_inline(_, _, _, _, _, _, _, _)

\* generate_subsystem_inline after the inner generate_system_code call,
\* whose result is r
inline_outports(subsys, blk, var_prefix, parent_signal_map, r) ==
    LET close(mapped) ==
            [mapped EXCEPT !.code = IF mapped.fault = "none"
                                    THEN @ \o << "// --- End: " \o blk.name \o " ---" >>
                                    ELSE @]
    IN  close(map_outports(subsys, blk, var_prefix, r.signal_map,
                           [signal_map |-> parent_signal_map, code |-> r.code,
                            fault |-> r.fault],
                           Len(outports(subsys))))

\* generator::generate_subsystem_inline; M is the systems map of model_.
\* The marker lines are written with the box-drawing character U+2500,
\* for which '-' stands here
generate_subsystem_inline(M, subsys, blk, inputs, var_prefix, parent_signal_map, code, depth) ==
    inline_outports(subsys, blk, var_prefix, parent_signal_map,
        generate_system_code(M, subsys, var_prefix,
            Override(parent_signal_map, subsystem_inputs(subsys, inputs)),
            code \o << "// --- Subsystem: " \o blk.name \o " ---" >>,
            depth + 1))

\* generator::generate_block_code
generate_block_code(M, blk, inputs, out_var, var_prefix, state_var, signal_map, code, depth) ==
    IF blk.type = "SubSystem"
    THEN IF blk.subsystem_ref # "" /\ blk.subsystem_ref \in DOMAIN M
         THEN generate_subsystem_inline(M, M[blk.subsystem_ref], blk, inputs,
                                        var_prefix, signal_map, code, depth)
         ELSE [ signal_map |-> signal_map,
                code |-> code \o << "// SubSystem: " \o blk.name \o " (not found)",
                                    "auto " \o out_var \o " = "
                                       \o get_input(inputs, 1) \o ";" >>,
                fault |-> "none" ]
    ELSE [ signal_map |-> IF blk.type = "Demux"
                          THEN Override(signal_map, demux_signals(blk, inputs))
                          ELSE signal_map,
           code |-> code \o << "// " \o blk.type \o ": " \o blk.name >>
                         \o (IF blk.type = "TransferFcn"
                             THEN transfer_fcn_code(blk, parse_transfer_function(blk),
                                      get_input(inputs, 1), out_var,
                                      "state." \o var_prefix \o "_tf_")
                             ELSE block_statement(blk, inputs, out_var, state_var)),
           fault |-> "none" ]

\* generate_system_code, the body of the loop over sorted_sids for a block
\* that generates code; sm is signal_map after out_var has been read
emit_block(M, sys, prefix, block_inputs, blk, sm, code, depth) ==
    generate_block_code(M, blk, block_inputs[blk.sid], sm[out_key(blk.sid, 1)],
        var_prefix_of(prefix, blk), state_var_of(sys, prefix, blk.sid),
        sm, code, depth)

\* generate_system_code, "Generate code for each block": the loop over the
\* rest of sorted_sids
emit_blocks(M, sys, prefix, block_inputs, sids, acc, depth) ==
    LET skipped(sid) ==
            \A i \in 1..Len(sys.blocks) :
                i = find_block_by_sid(sys, sid) =>
                    is_inport(sys.blocks[i]) \/ is_outport(sys.blocks[i])
        \* signal_map[key], which creates an empty entry when there is none
        touch(signal_map, key) ==
            IF key \in DOMAIN signal_map THEN signal_map ELSE MapPut(signal_map, key, "")
    IN  IF sids = << >> \/ acc.fault # "none" THEN acc
        ELSE IF skipped(Head(sids))
        THEN emit_blocks(M, sys, prefix, block_inputs, Tail(sids), acc, depth)
        ELSE emit_blocks(M, sys, prefix, block_inputs, Tail(sids),
                 emit_block(M, sys, prefix, block_inputs,
                            sys.blocks[find_block_by_sid(sys, Head(sids))],
                            touch(acc.signal_map, out_key(Head(sids), 1)),
                            acc.code, depth),
                 depth)

\* what generate_system_code leaves behind: signal_map, code, sorted_sids
\* and whether the scheduler ran
system_result(r, sorted_sids, scheduled) ==
    [ signal_map |-> r.signal_map, code |-> r.code, sorted_sids |-> sorted_sids,
      scheduled |-> scheduled, fault |-> r.fault ]

\* generate_system_code from the emission loop on
emit_sorted(M, sys, prefix, sm, code, depth, st, sorted_sids) ==
    system_result(emit_blocks(M, sys, prefix, st.block_inputs, sorted_sids,
                              [signal_map |-> sm, code |-> code, fault |-> "none"],
                              depth),
                  sorted_sids, TRUE)

\* generate_system_code from the topological sort on; st is what the loop
\* over the connections built
sort_and_emit(M, sys, prefix, sm, code, depth, st) ==
    IF st.fault # "none"
    THEN system_result([signal_map |-> sm, code |-> code, fault |-> st.fault],
                       << >>, FALSE)
    ELSE emit_sorted(M, sys, prefix, sm, code, depth, st,
                     schedule(sys, st.dependencies,
                              in_degree_of(sys, st.dependencies)))

\* generate_system_code from the loop over the connections on; sm is
\* signal_map with the output names of all blocks
connect_and_emit(M, sys, prefix, sm, code, depth) ==
    sort_and_emit(M, sys, prefix, sm, code, depth,
                  build_dependencies(sys, sm, Len(sys.connections)))

\* generator::generate_system_code; the result holds signal_map and code as
\* the call leaves them, and sorted_sids of this system
generate_system_code(M, sys, prefix, signal_map, code, depth) ==
    IF past_inline_depth(depth)
    THEN system_result([signal_map |-> signal_map,
                        code |-> code \o << "// Max inline depth reached" >>,
                        fault |-> "none"], << >>, FALSE)
    ELSE connect_and_emit(M, sys, prefix,
             assign_signals(sys, prefix, signal_map, Len(sys.blocks)),
             code, depth)

\* the names extract_config_vars leaves out
builtins ==
    { "sqrt", "exp", "log", "log10", "sin", "cos", "tan", "asin", "acos", "atan",
      "sinh", "cosh", "tanh", "abs", "floor", "ceil", "round", "mod", "sign",
      "max", "min", "pi", "inf", "nan", "eps", "true", "false" }

\* generator::extract_config_vars: the runs of letters, digits and
\* underscores of expr that open with a letter and are no builtin
extract_config_vars(expr) ==
    LET word(i) == isalnum(Ch(expr, i)) \/ Ch(expr, i) = "_"
        runs == { r \in (1..Len(expr)) \X (1..Len(expr)) :
                    /\ r[1] <= r[2]
                    /\ \A i \in r[1]..r[2] : word(i)
                    /\ r[1] = 1 \/ ~word(r[1] - 1)
                    /\ r[2] = Len(expr) \/ ~word(r[2] + 1) }
    IN  { current \in { SubSeq(expr, r[1], r[2]) : r \in runs } :
            isalpha(Ch(current, 1)) /\ current \notin builtins }

\* generator::collect_config_from_block
collect_config_from_block(blk) ==
    LET param_names == { "Gain", "UpperLimit", "LowerLimit", "Value", "InitialCondition",
                         "Threshold", "Numerator", "Denominator" }
    IN  UNION ({ extract_config_vars(blk.parameters[pname]) :
                    pname \in param_names \cap DOMAIN blk.parameters }
                 \cup { extract_config_vars(blk.mask_parameters[i].value) :
                          i \in 1..Len(blk.mask_parameters) })

\* generator::collect_all_variables: the names added to all_config_vars_
\* by the blocks of a system and, through their subsystem_ref, by the
\* systems below them
RECURSIVE collect_all_config(_, _, _)
collect_all_config(M, sys, depth) ==
    IF past_inline_depth(depth) THEN {}
    ELSE UNION { collect_config_from_block(sys.blocks[i])
                   \cup (IF is_subsystem(sys.blocks[i]) /\ sys.blocks[i].subsystem_ref # ""
                            /\ sys.blocks[i].subsystem_ref \in DOMAIN M
                         THEN collect_all_config(M, M[sys.blocks[i].subsystem_ref],
                                                 depth + 1)
                         ELSE {}) :
                 i \in 1..Len(sys.blocks) }

\* generator::collect_all_variables: the state variables added to
\* all_state_vars_ by the first n blocks of a system and, through their
\* subsystem_ref, by the systems below them
RECURSIVE collect_all_variables(_, _, _, _, _)
collect_all_variables(M, sys, prefix, depth, n) ==
    LET RECURSIVE tf_entries(_, _)
        tf_entries(var_prefix, i) ==
            IF i = 0 THEN << >>
            ELSE tf_entries(var_prefix, i - 1)
                   \o << << var_prefix \o "_tf_x" \o to_string(i - 1),
                            "TransferFcn state " \o to_string(i - 1) \o " in "
                              \o (IF prefix = "" THEN "root" ELSE prefix) >>,
                         << var_prefix \o "_tf_u" \o to_string(i - 1),
                            "TransferFcn input history " \o to_string(i - 1) >> >>
        entries(blk, var_prefix) ==
            (IF is_stateful(blk)
             THEN << << var_prefix \o "_state",
                        blk.type \o " in " \o (IF prefix = "" THEN "root" ELSE prefix) >> >>
             ELSE << >>)
              \o (IF blk.type = "TransferFcn"
                  THEN tf_entries(var_prefix, parse_transfer_function(blk).order)
                  ELSE << >>)
              \o (IF is_subsystem(blk) /\ blk.subsystem_ref # ""
                     /\ blk.subsystem_ref \in DOMAIN M
                  THEN collect_all_variables(M, M[blk.subsystem_ref], var_prefix,
                           depth + 1, Len(M[blk.subsystem_ref].blocks))
                  ELSE << >>)
    IN  IF past_inline_depth(depth) \/ n = 0 THEN << >>
        ELSE collect_all_variables(M, sys, prefix, depth, n - 1)
               \o entries(sys.blocks[n], var_prefix_of(prefix, sys.blocks[n]))

\* generate_parts, "Generate output assignments": the lines written for
\* outport outp by the destinations of the first n connections
RECURSIVE output_lines(_, _, _, _)
output_lines(sys, signal_map, outp, n) ==
    LET hits(conn) ==
            SelectSeq(check_dsts(conn),
                      LAMBDA d : /\ endpoint_parse(d).ok
                                 /\ endpoint_parse(d).block_sid = outp.sid)
        written(conn, src, src_key) ==
            IF src.ok /\ src_key \in DOMAIN signal_map
            THEN [j \in 1..Len(hits(conn)) |->
                     "out." \o sanitize_name(outp.name) \o " = " \o signal_map[src_key]
                       \o ";"]
            ELSE << >>
        parsed(conn, src) == written(conn, src, out_key(src.block_sid, src.port_index))
    IN  IF n = 0 THEN << >>
        ELSE output_lines(sys, signal_map, outp, n - 1)
               \o parsed(sys.connections[n], endpoint_parse(sys.connections[n].source))

\* generate_parts, the output assignments of the first n outports
RECURSIVE all_output_lines(_, _, _)
all_output_lines(sys, signal_map, n) ==
    IF n = 0 THEN << >>
    ELSE all_output_lines(sys, signal_map, n - 1)
           \o output_lines(sys, signal_map, outports(sys)[n], Len(sys.connections))

\* generate_parts, "Map inports to input struct"; inps is sys.inports()
inport_signals(inps) ==
    LET last_with(k) == SetMax({ i \in 1..Len(inps) : out_key(inps[i].sid, 1) = k })
    IN  [k \in { out_key(inps[i].sid, 1) : i \in 1..Len(inps) } |->
            "in." \o sanitize_name(inps[last_with(k)].name)]

\* generate_parts after the generate_system_code call, whose result is r.
\* operation_code is the sequence of its lines: the text the generator
\* writes is indent_, the line and a line break for each of them
parts_of(M, sys, prefix, r) ==
    LET names(bs) == [i \in 1..Len(bs) |-> sanitize_name(bs[i].name)]
        throws(outps) == \E i \in 1..Len(outps) : outport_scan_throws(sys, outps[i])
    IN  [ inports |-> names(inports(sys)),
          outports |-> names(outports(sys)),
          state_vars |-> collect_all_variables(M, sys, prefix, 0, Len(sys.blocks)),
          config_vars |-> collect_all_config(M, sys, 0),
          operation_code |->
              r.code \o << "", "// Outputs" >>
                \o all_output_lines(sys, r.signal_map, Len(outports(sys))),
          sorted_sids |-> r.sorted_sids,
          signal_map |-> r.signal_map,
          fault |-> IF r.fault # "none" THEN r.fault
                    ELSE IF throws(outports(sys)) THEN "throws" ELSE "none" ]

\* generator::generate_parts for system sys of the model with systems M.
\* The result also holds sorted_sids and signal_map of the outermost
\* generate_system_code call
generate_parts(M, sys, prefix) ==
    parts_of(M, sys, prefix,
             generate_system_code(M, sys, prefix, inport_signals(inports(sys)),
                                  << >>, 0))

(***************************************************************************)
(* The lifter (block_diagram_generator): from the lines of an update body  *)
(* to blocks and connections.  A lifted block is a record [sid, type,      *)
(* name], with its parameters when it is a TransferFcn; a connection is a  *)
(* record [src_sid, src_port, dst_sid, dst_port], and var_map maps a       *)
(* variable to << sid, port >>.  The lines of a component call are not     *)
(* modelled: none of the update bodies below holds one.                    *)
(***************************************************************************)

\* generator::indent_
indent_ == "        "

\* block_diagram_generator::trim
trim(s) ==
    LET ink == { i \in 1..Len(s) : Ch(s, i) \notin {" ", "\t", "\r", "\n"} }
    IN  IF ink = {} THEN ""
        ELSE SubSeq(s, CHOOSE i \in ink : \A j \in ink : i <= j, SetMax(ink))

Has(s, pat) == Find(s, pat, 1) # 0

\* if (s.back() == ';') s.pop_back(); no line below leaves s empty here
pop_semicolon(s) ==
    IF s # "" /\ Ch(s, Len(s)) = ";" THEN SubSeq(s, 1, Len(s) - 1) ELSE s

\* block_diagram_generator::xml_decode
RECURSIVE xml_decode(_)
xml_decode(s) ==
    IF s = "" THEN ""
    ELSE IF StartsWith(s, "&#xA;") THEN "\n" \o xml_decode(SubSeq(s, 6, Len(s)))
    ELSE IF StartsWith(s, "&amp;") THEN "&" \o xml_decode(SubSeq(s, 6, Len(s)))
    ELSE IF StartsWith(s, "&lt;") THEN "<" \o xml_decode(SubSeq(s, 5, Len(s)))
    ELSE IF StartsWith(s, "&gt;") THEN ">" \o xml_decode(SubSeq(s, 5, Len(s)))
    ELSE Ch(s, 1) \o xml_decode(SubSeq(s, 2, Len(s)))

\* oc_writer::convert, the lines of the config section.  parts.functions
\* is empty: generate_block_code writes every SubSystem inline and
\* generate_parts hands no function to the writer
written_config(parts) ==
    LET functions == << >>
        needs_config == parts.config_vars # {} \/ functions # << >>
        vars == SortedKeys(parts.config_vars)
    IN  IF needs_config
        THEN << "", "    config {" >>
               \o [i \in 1..Len(vars) |-> "        float " \o vars[i] \o ";"]
               \o << "        float dt = 0.001;  // sample time", "    }" >>
        ELSE << >>

\* oc_writer::convert, the lines written after "update {": the generated
\* code and the closing brace of the section
written_update(code) ==
    [i \in 1..(Len(code) + 1) |->
        IF i > Len(code) THEN "    }"
        ELSE IF code[i] = "" THEN "" ELSE indent_ \o code[i]]

\* extract_update_body once "update {" has been found: the lines from
\* line i on are kept until the braces of the section are closed
extract_update_body(lines, i, brace_depth) ==
    LET delta == [j \in i..Len(lines) |->
                     Cardinality({ k \in 1..Len(lines[j]) : Ch(lines[j], k) = "{" })
                       - Cardinality({ k \in 1..Len(lines[j]) : Ch(lines[j], k) = "}" })]
        \* brace_depth after line n has been read
        depth[n \in (i - 1)..Len(lines)] ==
            IF n < i THEN brace_depth ELSE depth[n - 1] + delta[n]
        closed == { n \in i..Len(lines) : depth[n] <= 0 }
    IN  IF closed = {} THEN SubSeq(lines, i, Len(lines))
        ELSE SubSeq(lines, i, (CHOOSE n \in closed : \A m \in closed : n <= m) - 1)

\* "state.X += input * cfg.dt;"
is_integrator_update(t) ==
    StartsWith(t, "state.") /\ Has(t, "+=") /\ Has(t, "* cfg.dt")

\* "state.X = input;"
is_delay_update(t) ==
    StartsWith(t, "state.") /\ Has(t, "= ") /\ ~Has(t, "+=") /\ ~Has(t, "_tf_")

\* the name between the first '.' of a state update and its operator op
state_var_in(t, op) == trim(SubSeq(t, Find(t, ".", 1) + 1, Find(t, op, 1) - 1))

\* std::stod of the text of a number whose fraction digits are all 0: the
\* integer part is read as std::stoi reads it, the rest is left unread;
\* without a digit it throws
stod(s) == stoi(s)

\* parse_update_body, extract_coeff: the number before " * k" on the right
\* of the '=' of line t, 0.0 where the line has another form
extract_coeff(t, prefix) ==
    LET val == pop_semicolon(trim(SubSeq(t, Find(t, "=", 1) + 1, Len(t))))
        coeff == stod(trim(SubSeq(val, 1, Find(val, " * k", 1) - 1)))
    IN  IF ~StartsWith(t, prefix) \/ ~Has(t, "=") \/ ~Has(val, " * k") \/ coeff.throws
        THEN 0
        ELSE coeff.value

\* parse_update_body, the pre-scan of one trimmed line inside the braces
\* of a TransferFcn
prescan_tf_line(ps, t) ==
    LET depth == ps.tf_brace_depth
                   + Cardinality({ j \in 1..Len(t) : Ch(t, j) = "{" })
                   - Cardinality({ j \in 1..Len(t) : Ch(t, j) = "}" })
        u_n == IF StartsWith(t, "float u_n = ")
               THEN trim(pop_semicolon(trim(SubSeq(t, Find(t, "=", 1) + 1, Len(t)))))
               ELSE ps.tf_u_n
        b0 == IF StartsWith(t, "float b0_d") THEN extract_coeff(t, "float b0_d = ")
              ELSE ps.tf_b0_coeff
        a0 == IF StartsWith(t, "float a0_d") THEN extract_coeff(t, "float a0_d = ")
              ELSE ps.tf_a0_coeff
        ptf == [ input_var |-> u_n,
                 numerator |-> IF b0 # 0 THEN "[" \o format_coeff(b0) \o " 1]" ELSE "[1]",
                 denominator |-> "[" \o format_coeff(a0) \o " 1]" ]
    IN  IF depth <= 0
        THEN [ps EXCEPT !.tf_brace_depth = depth, !.tf_u_n = u_n, !.tf_b0_coeff = b0,
                        !.tf_a0_coeff = a0,
                        !.tf_data = MapPut(@, ps.tf_name, ptf),
                        !.in_tf_scope = FALSE,
                        !.scan_block_type = "", !.scan_block_name = ""]
        ELSE [ps EXCEPT !.tf_brace_depth = depth, !.tf_u_n = u_n, !.tf_b0_coeff = b0,
                        !.tf_a0_coeff = a0]

\* parse_update_body, the pre-scan of one trimmed line; ps holds sid,
\* var_map, state_vars, the block of the last comment, what was read
\* inside the braces of a TransferFcn and whether "Outputs" was met
prescan_line(ps, t) ==
    LET comment(c) ==
            IF c = "Outputs" THEN [ps EXCEPT !.stopped = TRUE]
            ELSE IF StartsWith(c, "TransferFcn:") /\ ps.scan_block_type = "TransferFcn"
            THEN ps
            ELSE IF Has(c, ":")
            THEN [ps EXCEPT !.scan_block_type = trim(SubSeq(c, 1, Find(c, ":", 1) - 1)),
                            !.scan_block_name =
                                xml_decode(trim(SubSeq(c, Find(c, ":", 1) + 1, Len(c))))]
            ELSE ps
        reserve(state_var, is_integrator) ==
            [ps EXCEPT !.sid = @ + 1,
                       !.state_vars = Append(@, [state_key |-> "state." \o state_var,
                                                 is_integrator |-> is_integrator,
                                                 reserved_sid |-> ps.sid]),
                       !.var_map = MapPut(@, "state." \o state_var, << ps.sid, 1 >>),
                       !.scan_block_type = ""]
    IN  IF ps.stopped \/ t = "" THEN ps
        ELSE IF StartsWith(t, "//") THEN comment(trim(SubSeq(t, 3, Len(t))))
        ELSE IF ps.in_tf_scope THEN prescan_tf_line(ps, t)
        ELSE IF t = "{" /\ ps.scan_block_type = "TransferFcn"
        THEN [ps EXCEPT !.in_tf_scope = TRUE, !.tf_brace_depth = 1,
                        !.tf_name = ps.scan_block_name, !.tf_u_n = "",
                        !.tf_b0_coeff = 0, !.tf_a0_coeff = 0]
        ELSE IF is_integrator_update(t) /\ ps.scan_block_type = "Integrator"
        THEN reserve(state_var_in(t, "+="), TRUE)
        ELSE IF is_delay_update(t) /\ ps.scan_block_type = "UnitDelay"
        THEN reserve(state_var_in(t, "="), FALSE)
        ELSE ps

\* parse_update_body, the pre-scan of lines lo..hi in their order (the
\* range is halved and its first half is evaluated before the second is
\* entered, so that the evaluation stays shallow)
RECURSIVE prescan(_, _, _, _)
prescan(lines, ps, lo, hi) ==
    LET first == prescan(lines, ps, lo, (lo + hi) \div 2) IN
    IF lo > hi THEN ps
    ELSE IF lo = hi THEN prescan_line(ps, trim(lines[lo]))
    ELSE IF first.stopped \in BOOLEAN
    THEN prescan(lines, first, (lo + hi) \div 2 + 1, hi)
    ELSE ps

\* resolve_input, the variable of var_map an expression resolves to, ""
\* when there is none
resolved(clean, var_map) ==
    IF clean = "" \/ Has(clean, "/* missing input")
       \/ clean \in {"0.0f", "0", "1.0f", "1"} \/ Has(clean, "std::numeric_limits")
    THEN ""
    ELSE IF clean \in DOMAIN var_map THEN clean
    ELSE IF ~StartsWith(clean, "state.")
    THEN (IF ("state." \o clean \o "_state") \in DOMAIN var_map
          THEN "state." \o clean \o "_state" ELSE "")
    ELSE IF SubSeq(clean, 7, Len(clean)) \in DOMAIN var_map
    THEN SubSeq(clean, 7, Len(clean))
    ELSE ""

\* block_diagram_generator::resolve_input: the connections with the one
\* that feeds port dst_port of block dst_sid, if expr resolves
resolve_input(expr, var_map, connections, dst_sid, dst_port) ==
    LET strip(c) == IF Has(c, "// TODO:")
                    THEN trim(SubSeq(c, 1, Find(c, "// TODO:", 1) - 1)) ELSE c
        connect(v) ==
            IF v = "" THEN connections
            ELSE Append(connections, [src_sid |-> var_map[v][1], src_port |-> var_map[v][2],
                                      dst_sid |-> dst_sid, dst_port |-> dst_port])
    IN  connect(resolved(strip(trim(expr)), var_map))

\* block_diagram_generator::is_variable
is_variable(name, var_map) ==
    \/ name \in DOMAIN var_map
    \/ ("in." \o name) \in DOMAIN var_map
    \/ ("state." \o name \o "_state") \in DOMAIN var_map
    \/ /\ name # ""
       /\ (isalnum(Ch(name, 1)) /\ ~isdigit(Ch(name, 1))) \/ Ch(name, 1) = "_"
       /\ ~Has(name, "*") /\ ~Has(name, "+") /\ ~Has(name, "(")

\* block_diagram_generator::create_gain, the connections it leaves
create_gain(blk, expr, var_map, connections) ==
    LET split(left, right) ==
            IF is_variable(left, var_map) \/ ~is_variable(right, var_map)
            THEN resolve_input(left, var_map, connections, blk.sid, 1)
            ELSE resolve_input(right, var_map, connections, blk.sid, 1)
    IN  IF Has(expr, " * ")
        THEN split(trim(SubSeq(expr, 1, Find(expr, " * ", 1) - 1)),
                   trim(SubSeq(expr, Find(expr, " * ", 1) + 3, Len(expr))))
        ELSE IF Has(expr, " / ")
        THEN resolve_input(trim(SubSeq(expr, 1, Find(expr, " / ", 1) - 1)),
                           var_map, connections, blk.sid, 1)
        ELSE resolve_input(expr, var_map, connections, blk.sid, 1)

\* create_sum, the first pass: the operands of the text from position pos
\* on, current being the text read since the last sign.  The signs go to
\* the Inputs parameter of the block only
RECURSIVE sum_operands(_, _, _)
sum_operands(trimmed_expr, pos, current) ==
    LET operand == IF trim(current) # "" THEN << trim(current) >> ELSE << >> IN
    IF pos > Len(trimmed_expr) THEN operand
    ELSE IF Ch(trimmed_expr, pos) \in {"+", "-"}
    THEN operand \o sum_operands(trimmed_expr, pos + 1, "")
    ELSE sum_operands(trimmed_expr, pos + 1, current \o Ch(trimmed_expr, pos))

\* create_sum connecting every operand to the first input port
create_sum_one_port(blk, expr, var_map, connections) ==
    LET operands == sum_operands(trim(expr), 1, "")
        RECURSIVE resolve_all(_)
        resolve_all(p) ==
            IF p = 0 THEN connections
            ELSE resolve_input(operands[p], var_map, resolve_all(p - 1), blk.sid, 1)
    IN  resolve_all(Len(operands))

\* block_diagram_generator::create_sum, the connections it leaves
create_sum(blk, expr, var_map, connections) ==
    LET operands == sum_operands(trim(expr), 1, "")
        RECURSIVE resolve_all(_)
        resolve_all(p) ==
            IF p = 0 THEN connections
            ELSE resolve_input(operands[p], var_map, resolve_all(p - 1), blk.sid, p)
    IN  resolve_all(Len(operands))

\* block_diagram_generator::clean_value: a float literal loses its f, a
\* configuration variable its cfg.
clean_value(s) ==
    LET v == trim(s)
        is_float == \A i \in 1..(Len(v) - 1) :
                        isdigit(Ch(v, i)) \/ Ch(v, i) \in {".", "-", "e", "E"}
        unsuffixed == IF EndsWith(v, "f") /\ Len(v) > 1 /\ is_float
                      THEN SubSeq(v, 1, Len(v) - 1) ELSE v
    IN  IF StartsWith(unsuffixed, "cfg.") THEN SubSeq(unsuffixed, 5, Len(unsuffixed))
        ELSE unsuffixed

\* create_switch, the parts of "(cond > threshold) ? true_val : false_val";
\* matched says that the expression has a "?", a ":" after it and " > " in
\* its condition
switch_parts(expr) ==
    LET q_pos == Find(expr, "?", 1)
        colon_pos == IF q_pos = 0 THEN 0 ELSE Find(expr, ":", q_pos)
        outer == trim(SubSeq(expr, 1, q_pos - 1))
        condition == IF StartsWith(outer, "(") /\ EndsWith(outer, ")")
                     THEN SubSeq(outer, 2, Len(outer) - 1) ELSE outer
        gt_pos == Find(condition, " > ", 1)
    IN  [ matched |-> q_pos # 0 /\ colon_pos # 0 /\ gt_pos # 0,
          true_val |-> trim(SubSeq(expr, q_pos + 1, colon_pos - 1)),
          false_val |-> trim(SubSeq(expr, colon_pos + 1, Len(expr))),
          cond_input |-> trim(SubSeq(condition, 1, gt_pos - 1)),
          threshold |-> trim(SubSeq(condition, gt_pos + 3, Len(condition))) ]

\* create_switch, the parameters it gives the block
switch_parameters(expr) ==
    IF switch_parts(expr).matched
    THEN [ k \in {"Criteria", "Threshold"} |->
             IF k = "Criteria" THEN "u2 > Threshold"
             ELSE clean_value(switch_parts(expr).threshold) ]
    ELSE EmptyMap

\* block_diagram_generator::create_switch, the connections it leaves
create_switch(blk, expr, var_map, connections) ==
    LET parts == switch_parts(expr)
    IN  IF parts.matched
        THEN resolve_input(parts.false_val, var_map,
                 resolve_input(parts.cond_input, var_map,
                     resolve_input(parts.true_val, var_map, connections, blk.sid, 1),
                     blk.sid, 2),
                 blk.sid, 3)
        ELSE connections

\* the block types create_block_from_type has a creator of its own for
CreatorTypes ==
    { "Gain", "Sum", "Product", "Constant", "Saturate", "MinMax", "Switch",
      "RelationalOperator", "Logic", "Abs", "Trigonometry", "Math", "TransferFcn",
      "Reference" }

\* block_diagram_generator::create_block_from_type, the connections it
\* leaves, for a Gain, a Sum, a Switch and the types without a creator
create_block_from_type(blk, expr, var_map, connections) ==
    CASE blk.type = "Gain" -> create_gain(blk, expr, var_map, connections)
      [] blk.type = "Sum" -> create_sum(blk, expr, var_map, connections)
      [] blk.type = "Switch" -> create_switch(blk, expr, var_map, connections)
      [] blk.type \notin CreatorTypes ->
            resolve_input(expr, var_map, connections, blk.sid, 1)

\* the sid reserved by the pre-scan for a state variable of a kind, 0 when
\* there is none
reserved_sid_of(state_vars, state_key, is_integrator) ==
    LET hits == { i \in 1..Len(state_vars) :
                    /\ state_vars[i].state_key = state_key
                    /\ state_vars[i].is_integrator = is_integrator }
    IN  IF hits = {} THEN 0
        ELSE state_vars[CHOOSE i \in hits : \A j \in hits : i <= j].reserved_sid

\* parse_update_body, the main pass, a line that opens with "//"; mp holds
\* blocks, connections, var_map, sid, the pending comment and whether
\* "Outputs" was met
main_comment(mp, comment) ==
    LET tagged(type, name) ==
            IF type = "Demux"
            THEN [mp EXCEPT !.blocks = Append(@, [sid |-> mp.sid, type |-> "Demux",
                                                  name |-> name]),
                            !.sid = @ + 1,
                            !.pending_block_type = "", !.pending_block_name = ""]
            ELSE [mp EXCEPT !.pending_block_type = type, !.pending_block_name = name]
    IN  IF StartsWith(comment, "TransferFcn:") /\ mp.pending_block_type = "TransferFcn"
        THEN mp
        ELSE IF comment = "Outputs" THEN [mp EXCEPT !.stopped = TRUE]
        ELSE IF ~Has(comment, ":") THEN mp
        ELSE tagged(trim(SubSeq(comment, 1, Find(comment, ":", 1) - 1)),
                    xml_decode(trim(SubSeq(comment, Find(comment, ":", 1) + 1,
                                           Len(comment)))))

\* parse_update_body, the main pass, "auto VarName = expression;"
main_auto(mp, trimmed) ==
    LET made(blk, var_name, expr) ==
            [mp EXCEPT !.blocks =
                           Append(@, IF blk.type = "Switch"
                                     THEN blk @@ [parameters |-> switch_parameters(expr)]
                                     ELSE blk),
                       !.connections =
                           create_block_from_type(blk, expr, mp.var_map, @),
                       !.var_map = MapPut(@, var_name, << blk.sid, 1 >>),
                       !.sid = @ + 1,
                       !.pending_block_type = "", !.pending_block_name = ""]
        \* a TransferFcn takes its input and its coefficients from the pre-scan
        tf_made(sid, name, var_name, expr) ==
            [mp EXCEPT !.blocks =
                           Append(@, IF name \in DOMAIN mp.tf_data
                                     THEN [sid |-> sid, type |-> "TransferFcn", name |-> name,
                                           parameters |->
                                               [k \in {"Numerator", "Denominator"} |->
                                                   IF k = "Numerator"
                                                   THEN mp.tf_data[name].numerator
                                                   ELSE mp.tf_data[name].denominator]]
                                     ELSE [sid |-> sid, type |-> "TransferFcn", name |-> name,
                                           parameters |-> EmptyMap]),
                       !.connections =
                           IF name \in DOMAIN mp.tf_data
                           THEN resolve_input(mp.tf_data[name].input_var, mp.var_map, @, sid, 1)
                           ELSE resolve_input(expr, mp.var_map, @, sid, 1),
                       !.var_map = MapPut(@, var_name, << sid, 1 >>),
                       !.sid = @ + 1,
                       !.pending_block_type = "", !.pending_block_name = ""]
        var_name_of == trim(SubSeq(trimmed, 6, Find(trimmed, "=", 1) - 1))
        expr_of == trim(pop_semicolon(trim(SubSeq(trimmed, Find(trimmed, "=", 1) + 1,
                                                  Len(trimmed)))))
    IN  IF ~Has(trimmed, "=") \/ mp.pending_block_type \in {"Component call", ""}
        THEN mp
        ELSE IF mp.pending_block_type = "TransferFcn"
        THEN tf_made(mp.sid, mp.pending_block_name, var_name_of, expr_of)
        ELSE made([sid |-> mp.sid, type |-> mp.pending_block_type,
                   name |-> mp.pending_block_name],
                  trim(SubSeq(trimmed, 6, Find(trimmed, "=", 1) - 1)),
                  trim(pop_semicolon(trim(SubSeq(trimmed, Find(trimmed, "=", 1) + 1,
                                                 Len(trimmed))))))

\* parse_update_body, the main pass, the update of a state variable for
\* which a block of the pending type is made; input is the text its input
\* is resolved from and blk_sid the sid the pre-scan reserved, or 0
main_state(mp, type, state_var, input, blk_sid) ==
    LET made(sid) ==
            [mp EXCEPT !.blocks = Append(@, [sid |-> sid, type |-> type,
                                             name |-> mp.pending_block_name]),
                       !.connections = resolve_input(input, mp.var_map, @, sid, 1),
                       !.var_map = IF type = "UnitDelay"
                                   THEN MapPut(@, "state." \o state_var, << sid, 1 >>)
                                   ELSE @,
                       !.sid = IF blk_sid = 0 THEN @ + 1 ELSE @,
                       !.pending_block_type = "", !.pending_block_name = ""]
    IN  made(IF blk_sid = 0 THEN mp.sid ELSE blk_sid)

\* the text of s before pat, all of s when pat is not in it
before(s, pat) == IF Has(s, pat) THEN SubSeq(s, 1, Find(s, pat, 1) - 1) ELSE s

\* the generate_component calls the lifter can have on its stack; the
\* code has no bound of its own, a deeper call overflows the stack
MaxCallDepth == 3

\* parse_update_body, a component call: the values of the ".field = value"
\* pairs of the text between the braces of the input struct, from
\* position pos on
RECURSIVE input_values(_, _)
input_values(fields_str, pos) ==
    LET dot == Find(fields_str, ".", pos)
        eq == Find(fields_str, "=", dot)
        comma == IF Find(fields_str, ",", eq) = 0 THEN Len(fields_str) + 1
                 ELSE Find(fields_str, ",", eq)
    IN  IF pos > Len(fields_str) \/ dot = 0 \/ eq = 0 THEN << >>
        ELSE << trim(SubSeq(fields_str, eq + 1, comma - 1)) >>
               \o input_values(fields_str, comma + 1)

\* parse_update_body, a component call: line a is an output extraction of
\* the component
is_extraction(lines, a, comp_type) ==
    /\ a <= Len(lines)
    /\ StartsWith(trim(lines[a]), "auto ")
    /\ Has(trim(lines[a]), comp_type \o "_out")

\* block_diagram_generator::generate_component for component comp, the
\* child system getting the id sys_counter; depth calls are on the stack
RECURSIVE generate_component(_, _, _, _)

\* parse_update_body, the main pass at line n, the input struct of a
\* component call: the SubSystem block, its child systems, its inputs and
\* its output extractions, and the line the pass goes on with
main_call(mp, lines, n) ==
    LET input_line == trim(lines[n])
        comp_type == SubSeq(input_line, 1, Find(input_line, "_input ", 1) - 1)
        defs == { c \in 1..Len(mp.components) : mp.components[c].name = comp_type }
        has_def == defs # {}
        comp_def == mp.components[CHOOSE c \in defs : \A d \in defs : c <= d]
        values == IF Has(input_line, "{") /\ Has(input_line, "}")
                  THEN input_values(SubSeq(input_line, Find(input_line, "{", 1) + 1,
                                           RFind(input_line, "}") - 1), 1)
                  ELSE << >>
        child == generate_component(comp_def, mp.components, mp.sys_counter + 1,
                                    mp.depth + 1)
        blk == [sid |-> mp.sid, type |-> "SubSystem", name |-> mp.pending_block_name,
                subsystem_ref |-> IF has_def
                                  THEN "system_" \o to_string(mp.sys_counter + 1) ELSE ""]
        RECURSIVE connect(_)
        connect(p) ==
            IF p = 0 THEN mp.connections
            ELSE resolve_input(values[p], mp.var_map, connect(p - 1), mp.sid, p)
        \* the output struct line is stepped over, and the update call line
        \* is where the search for output extractions starts
        from == IF n + 1 <= Len(lines) THEN n + 2 ELSE n + 1
        matched == { a \in from..Len(lines) :
                       \A b \in from..a : is_extraction(lines, b, comp_type) }
        RECURSIVE extract(_, _, _)
        extract(a, out_port, var_map) ==
            IF a \notin matched THEN var_map
            ELSE IF Has(trim(lines[a]), "=")
            THEN extract(a + 1, out_port + 1,
                         MapPut(var_map,
                                trim(SubSeq(trim(lines[a]), 6,
                                            Find(trim(lines[a]), "=", 1) - 1)),
                                << mp.sid, out_port >>))
            ELSE extract(a + 1, out_port, var_map)
        \* the state after the call, sub being what generate_component made
        called(sub) ==
            [mp EXCEPT !.blocks = Append(@, blk),
                       !.connections = connect(Len(values)),
                       !.var_map = extract(from, 1, @),
                       !.sid = @ + 1,
                       !.sys_counter = IF has_def THEN sub.sys_counter ELSE @,
                       !.children =
                           IF has_def
                           THEN @ \o << [id |-> mp.sys_counter + 1, blocks |-> sub.blocks,
                                         connections |-> sub.connections,
                                         system_xml |-> sub.system_xml] >>
                                  \o sub.children
                           ELSE @,
                       !.fault = IF has_def THEN sub.fault ELSE @,
                       !.stopped = has_def /\ sub.fault # "none",
                       !.next_i = IF from + Cardinality(matched) <= Len(lines)
                                  THEN from + Cardinality(matched)
                                  ELSE Len(lines) + 1,
                       !.pending_block_type = "", !.pending_block_name = ""]
    IN  IF ~Has(input_line, "_input ")
        THEN [mp EXCEPT !.pending_block_type = "", !.pending_block_name = ""]
        ELSE called(child)

\* the main pass reaches the component call branch with this line: no
\* branch before it takes the line
is_call_line(mp, trimmed) ==
    /\ ~mp.stopped
    /\ trimmed # ""
    /\ ~StartsWith(trimmed, "//")
    /\ trimmed \notin {"{", "}"}
    /\ ~StartsWith(trimmed, "float ")
    /\ ~(StartsWith(trimmed, "state.") /\ Has(trimmed, "_tf_"))
    /\ ~StartsWith(trimmed, "auto ")
    /\ ~is_integrator_update(trimmed)
    /\ ~is_delay_update(trimmed)
    /\ mp.pending_block_type = "Component call"

\* parse_update_body, the main pass over one trimmed line
main_line(mp, state_vars, trimmed) ==
    IF mp.stopped \/ trimmed = "" THEN mp
    ELSE IF StartsWith(trimmed, "//")
    THEN main_comment(mp, trim(SubSeq(trimmed, 3, Len(trimmed))))
    ELSE IF \/ trimmed \in {"{", "}"}
            \/ StartsWith(trimmed, "float ")
            \/ StartsWith(trimmed, "state.") /\ Has(trimmed, "_tf_")
    THEN mp
    ELSE IF StartsWith(trimmed, "auto ") THEN main_auto(mp, trimmed)
    ELSE IF is_integrator_update(trimmed) /\ mp.pending_block_type = "Integrator"
    THEN main_state(mp, "Integrator", state_var_in(trimmed, "+="),
             trim(before(SubSeq(trimmed, Find(trimmed, "+=", 1) + 2, Len(trimmed)),
                         "* cfg.dt")),
             reserved_sid_of(state_vars, "state." \o state_var_in(trimmed, "+="), TRUE))
    ELSE IF is_delay_update(trimmed) /\ mp.pending_block_type = "UnitDelay"
    THEN main_state(mp, "UnitDelay", state_var_in(trimmed, "="),
             trim(before(pop_semicolon(SubSeq(trimmed, Find(trimmed, "=", 1) + 1,
                                             Len(trimmed))),
                         "//")),
             reserved_sid_of(state_vars, "state." \o state_var_in(trimmed, "="), FALSE))
    ELSE mp

\* parse_update_body, the main pass over lines lo..hi in their order
RECURSIVE main_pass(_, _, _, _, _)
main_pass(lines, state_vars, mp, lo, hi) ==
    LET first == main_pass(lines, state_vars, mp, lo, (lo + hi) \div 2) IN
    IF lo > hi THEN mp
    ELSE IF lo = hi
    THEN (IF lo < mp.next_i THEN mp
          ELSE IF is_call_line(mp, trim(lines[lo])) THEN main_call(mp, lines, lo)
          ELSE main_line(mp, state_vars, trim(lines[lo])))
    ELSE IF first.stopped \in BOOLEAN
    THEN main_pass(lines, state_vars, first, (lo + hi) \div 2 + 1, hi)
    ELSE mp

\* parse_update_body, the pre-scan of the body: what it leaves in sid,
\* var_map, state_vars and tf_data
prescan_body(lines, g) ==
    prescan(lines, [sid |-> g.sid, var_map |-> g.var_map,
                    state_vars |-> << >>, scan_block_type |-> "",
                    scan_block_name |-> "", in_tf_scope |-> FALSE,
                    tf_brace_depth |-> 0, tf_name |-> "", tf_u_n |-> "",
                    tf_b0_coeff |-> 0, tf_a0_coeff |-> 0,
                    tf_data |-> EmptyMap,
                    stopped |-> FALSE],
            1, Len(lines))

\* block_diagram_generator::parse_update_body; g holds blocks, connections,
\* var_map, sid, sys_counter, the child systems made so far and the
\* number of generate_component calls on the stack
parse_update_body(lines, components, g) ==
    LET main(ps) ==
            main_pass(lines, ps.state_vars,
                      [blocks |-> g.blocks, connections |-> g.connections,
                       var_map |-> ps.var_map, sid |-> ps.sid,
                       tf_data |-> ps.tf_data,
                       pending_block_type |-> "", pending_block_name |-> "",
                       stopped |-> FALSE,
                       components |-> components, sys_counter |-> g.sys_counter,
                       children |-> g.children, depth |-> g.depth,
                       fault |-> g.fault, next_i |-> 1],
                      1, Len(lines))
        scanned(ps) == IF ps.stopped \in BOOLEAN THEN main(ps) ELSE g
    IN  scanned(prescan_body(lines, g))

\* block_diagram_generator::extract_output_assignments over lines lo..hi
\* in their order: the map from the name of an output to the text assigned
\* to it and whether "// Outputs" was met
RECURSIVE extract_output_assignments(_, _, _, _)
extract_output_assignments(lines, acc0, lo, hi) ==
    LET step(acc, t) ==
            IF t = "// Outputs" THEN [acc EXCEPT !.in_outputs = TRUE]
            ELSE IF acc.in_outputs /\ StartsWith(t, "out.") /\ Has(t, "=")
            THEN [acc EXCEPT !.result =
                     MapPut(@, trim(SubSeq(t, Find(t, ".", 1) + 1, Find(t, "=", 1) - 1)),
                            trim(pop_semicolon(trim(SubSeq(t, Find(t, "=", 1) + 1,
                                                           Len(t))))))]
            ELSE acc
        first == extract_output_assignments(lines, acc0, lo, (lo + hi) \div 2)
    IN  IF lo > hi THEN acc0
        ELSE IF lo = hi THEN step(acc0, trim(lines[lo]))
        ELSE IF first.in_outputs \in BOOLEAN
        THEN extract_output_assignments(lines, first, (lo + hi) \div 2 + 1, hi)
        ELSE acc0

\* generate, phase 1: an Inport block for each variable of the input
\* section
lift_inports(names) ==
    [ blocks |-> [i \in 1..Len(names) |-> [sid |-> i, type |-> "Inport", name |-> names[i]]],
      connections |-> << >>,
      var_map |-> [k \in { "in." \o names[i] : i \in 1..Len(names) } |->
                      << SetMax({ i \in 1..Len(names) : "in." \o names[i] = k }), 1 >>],
      sid |-> Len(names) + 1 ]

\* generate, phase 3: an Outport block for each of the first n variables of
\* the output section, connected to what is assigned to it
RECURSIVE lift_outports(_, _, _, _)
lift_outports(g, names, assigned, n) ==
    LET add(b, name) ==
            [b EXCEPT !.blocks = Append(@, [sid |-> b.sid, type |-> "Outport",
                                            name |-> name]),
                      !.connections =
                          IF name \in DOMAIN assigned /\ assigned[name] \in DOMAIN b.var_map
                          THEN Append(@, [src_sid |-> b.var_map[assigned[name]][1],
                                          src_port |-> b.var_map[assigned[name]][2],
                                          dst_sid |-> b.sid, dst_port |-> 1])
                          ELSE @,
                      !.sid = @ + 1]
    IN  IF n = 0 THEN g
        ELSE add(lift_outports(g, names, assigned, n - 1), names[n])

\* the order of std::pair<int, int>, the key of line_groups
pair_less(a, b) == a[1] < b[1] \/ (a[1] = b[1] /\ a[2] < b[2])

\* the keys of a std::map keyed by pairs, in the order it is iterated
RECURSIVE sorted_pairs(_)
sorted_pairs(keys) ==
    IF keys = {} THEN << >>
    ELSE LET least == CHOOSE k \in keys : \A other \in keys : k = other \/ pair_less(k, other)
         IN  << least >> \o sorted_pairs(keys \ {least})

\* line_groups of emit_system_xml: for each source port the destinations
\* connected to it, in the order of the connections
line_groups(connections) ==
    [ src \in { << connections[c].src_sid, connections[c].src_port >> :
                  c \in 1..Len(connections) } |->
        LET from_src == SelectSeq(connections,
                            LAMBDA c : << c.src_sid, c.src_port >> = src)
        IN  [ i \in 1..Len(from_src) |-> << from_src[i].dst_sid, from_src[i].dst_port >> ] ]

\* a Line element that holds every destination in a Branch of its own
emit_line_branched(src, dests, zorder) ==
    [ zorder |-> zorder, src |-> src, dst |-> << >>,
      branches |-> [ i \in 1..Len(dests) |-> [zorder |-> zorder + i, dst |-> dests[i]] ] ]

\* the Line element emit_system_xml writes for one source port: its ZOrder
\* and Src, then a Dst if there is one destination and a Branch for each
\* destination otherwise
emit_line(src, dests, zorder) ==
    IF Len(dests) = 1
    THEN [ zorder |-> zorder, src |-> src, dst |-> << dests[1] >>, branches |-> << >> ]
    ELSE [ zorder |-> zorder, src |-> src, dst |-> << >>,
           branches |-> [ i \in 1..Len(dests) |->
                            [zorder |-> zorder + i, dst |-> dests[i]] ] ]

\* the loop of emit_system_xml over line_groups; zorder counts the Lines
\* and the Branches written so far
RECURSIVE emit_lines(_, _, _)
emit_lines(groups, keys, zorder) ==
    IF keys = << >> THEN << >>
    ELSE LET line == emit_line(Head(keys), groups[Head(keys)], zorder)
         IN  << line >> \o emit_lines(groups, Tail(keys), zorder + 1 + Len(line.branches))

\* the Line elements of the system XML emit_system_xml returns
emit_system_xml(connections) ==
    emit_lines(line_groups(connections), sorted_pairs(DOMAIN line_groups(connections)), 1)

\* what generate and generate_component start from: the Inports, no child
\* system yet
lift_start(names, sys_counter, depth) ==
    lift_inports(names)
      @@ [ sys_counter |-> sys_counter, children |-> << >>, depth |-> depth,
           fault |-> "none" ]

\* what generate and generate_component return: the blocks and the
\* connections of the system, the child systems with their ids in the
\* order they were made, and sys_counter as it is left
system_of(g) ==
    [ blocks |-> g.blocks, connections |-> g.connections, var_map |-> g.var_map,
      sid |-> g.sid, children |-> g.children, sys_counter |-> g.sys_counter,
      fault |-> g.fault, system_xml |-> emit_system_xml(g.connections) ]

\* a component is a record of its name, the names of its input and output
\* sections and body, the lines extract_update_body finds for it
generate_component(comp, all_components, sys_counter, depth) ==
    IF depth > MaxCallDepth
    THEN [ blocks |-> << >>, connections |-> << >>, var_map |-> EmptyMap, sid |-> 1,
           children |-> << >>, sys_counter |-> sys_counter, fault |-> "stack",
           system_xml |-> << >> ]
    ELSE system_of(lift_outports(parse_update_body(comp.body, all_components,
                                     lift_start(comp.inputs, sys_counter, depth)),
                                 comp.outputs,
                                 extract_output_assignments(comp.body,
                                     [result |-> EmptyMap, in_outputs |-> FALSE],
                                     1, Len(comp.body)).result,
                                 Len(comp.outputs)))

\* block_diagram_generator::generate for an element whose update body has
\* the given lines and whose input and output sections declare the given
\* names, in a file with the given components
generate(lines, input_names, output_names, components, sys_counter) ==
    system_of(lift_outports(parse_update_body(lines, components,
                                lift_start(input_names, sys_counter, 0)),
                            output_names,
                            extract_output_assignments(lines,
                                [result |-> EmptyMap, in_outputs |-> FALSE],
                                1, Len(lines)).result,
                            Len(output_names)))

(***************************************************************************)
(* State                                                                   *)
(***************************************************************************)
VARIABLES
    \* container round trip
    src_parts,   \* how the input file was composed: its parts in file order
    mdl,         \* the text of the input file M
    oc_ok,       \* oc_to_mdl found .oc files and they all parsed
    opc_pc,      \* which driver has run
    parts_1,     \* opc_extractor::parts_ of the first mdl_to_oc run
    meta,        \* the metadata built by the first mdl_to_oc run
    sidecar,     \* the <model>.oc.metadata file
    mdl_out,     \* the file written by oc_to_mdl
    parts_2,     \* opc_extractor::parts_ of mdl_to_oc run on mdl_out
    oc_dir,      \* the .oc files of the directory oc_to_mdl is run on, sorted
    oc_log,      \* the lines oc_to_mdl wrote while it parsed the files
    oc_exit,     \* what main of oc_to_mdl returned, -1 before it has run
    oc_dir_2,    \* the .oc files of the second run of oc_to_mdl, the sidecar
                 \* being the one of the first run
    mdl_out_2,   \* the file the second run of oc_to_mdl wrote
    \* forward code generation
    systems,     \* model::systems, the systems of the model by id
    top,         \* the id of the system that is exported
    gen_pc,      \* how far the export has come
    generated,   \* the generated_parts of the last generate_parts call
    prev_sorted_sids, \* sorted_sids of the export before the model was relisted
    lifted,      \* the blocks and connections lifted from the exported update body
    call_stack,  \* the generate_system_code calls that have not returned
    inline_code, \* the code stream the calls of call_stack write to
    element,     \* the element of an .oc file the lifter is given, with the
                 \* components of the file
    \* library functions called on their own
    lib_pc,      \* which function has been called
    lib_arg,     \* the argument of the call
    lib_res      \* what the call returned

opc_vars == << src_parts, mdl, oc_ok, opc_pc, parts_1, meta, sidecar,
               mdl_out, parts_2, oc_dir, oc_log, oc_exit, oc_dir_2,
               mdl_out_2 >>

gen_vars == << systems, top, gen_pc, generated, prev_sorted_sids, lifted,
               call_stack, inline_code, element, beyond >>

lib_vars == << lib_pc, lib_arg, lib_res >>

vars == << opc_vars, gen_vars, lib_vars >>

OpcIdle ==
    /\ src_parts = << >>
    /\ mdl = ""
    /\ oc_ok = FALSE
    /\ opc_pc = "idle"
    /\ parts_1 = EmptyMap
    /\ meta = [part_order |-> << >>, raw_parts |-> EmptyMap]
    /\ sidecar = to_json([part_order |-> << >>, raw_parts |-> EmptyMap])
    /\ mdl_out = ""
    /\ parts_2 = EmptyMap
    /\ oc_dir = << >>
    /\ oc_log = << >>
    /\ oc_exit = -1
    /\ oc_dir_2 = << >>
    /\ mdl_out_2 = ""

NoParts ==
    [ inports |-> << >>, outports |-> << >>, state_vars |-> << >>, config_vars |-> {},
      operation_code |-> << >>, sorted_sids |-> << >>, signal_map |-> EmptyMap,
      fault |-> "none" ]

NoLift ==
    [ blocks |-> << >>, connections |-> << >>, var_map |-> EmptyMap, sid |-> 1,
      children |-> << >>, sys_counter |-> 1, fault |-> "none", system_xml |-> << >> ]

\* an endpoint as endpoint::parse returns it
NoEndpoint ==
    [ok |-> FALSE, throws |-> FALSE, block_sid |-> "", port_type |-> "", port_index |-> 1]

NoArg == [kind |-> "none", text |-> "", e |-> NoEndpoint]

NoRes == [text |-> "", e |-> NoEndpoint]

LibIdle ==
    /\ lib_pc = "idle"
    /\ lib_arg = NoArg
    /\ lib_res = NoRes

\* no element has been read
NoElement ==
    [ inputs |-> << >>, outputs |-> << >>, body |-> << >>, components |-> << >>,
      calls |-> << >> ]

GenIdle ==
    /\ systems = EmptyMap
    /\ top = ""
    /\ gen_pc = "idle"
    /\ generated = NoParts
    /\ prev_sorted_sids = << >>
    /\ call_stack = << >>
    /\ inline_code = << >>
    /\ element = NoElement
    /\ beyond = 0
    /\ lifted = NoLift

\* ---------------------------------------------------------------------
\* The OC lexer and the raw code of an update body
\* ---------------------------------------------------------------------

\* s[i], the empty string past the end of s
At(s, i) == IF i \in 1..Len(s) THEN Ch(s, i) ELSE ""

\* the first position from pos on whose character is outside cs,
\* Len(s) + 1 when every character up to the end is in cs
span_end(s, pos, cs) ==
    LET out == { i \in pos..Len(s) : Ch(s, i) \notin cs }
    IN  IF out = {} THEN Len(s) + 1 ELSE CHOOSE i \in out : \A j \in out : i <= j

\* the first position from pos on whose character is in cs, Len(s) + 1
\* when there is none
span_until(s, pos, cs) ==
    LET hit == { i \in pos..Len(s) : Ch(s, i) \in cs }
    IN  IF hit = {} THEN Len(s) + 1 ELSE CHOOSE i \in hit : \A j \in hit : i <= j

DigitSet == { Ch(Digits, i) : i \in 1..Len(Digits) }

AlnumSet == { Ch(AlnumChars, i) : i \in 1..Len(AlnumChars) }

\* lexer::advance applied until pos_ is q: a line feed starts a new line
\* at column 1, any other character moves one column on
lexer_advance(s, lx, q) ==
    LET feeds == { i \in lx.pos..(q - 1) : At(s, i) = "\n" }
    IN  [pos |-> q,
         line |-> lx.line + Cardinality(feeds),
         col |-> IF feeds = {} THEN lx.col + (q - lx.pos) ELSE q - SetMax(feeds)]

\* lexer::skip_whitespace
skip_whitespace(s, lx) ==
    lexer_advance(s, lx, span_end(s, lx.pos, {" ", "\t", "\r", "\n"}))

\* lexer::classify_keyword
classify_keyword(text) ==
    CASE text = "namespace" -> "kw_namespace"
      [] text = "element" -> "kw_element"
      [] text = "component" -> "kw_component"
      [] text = "controller" -> "kw_controller"
      [] text = "input" -> "kw_input"
      [] text = "output" -> "kw_output"
      [] text = "state" -> "kw_state"
      [] text = "config" -> "kw_config"
      [] text = "memory" -> "kw_memory"
      [] text = "update" -> "kw_update"
      [] text = "operation" -> "kw_operation"
      [] text = "frequency" -> "kw_frequency"
      [] text = "float" -> "ty_float"
      [] text = "int" -> "ty_int"
      [] text = "auto" -> "ty_auto"
      [] OTHER -> "identifier"

\* the token of type ty that spans pos_..q-1, its text being text
lexed(s, lx, q, ty, text) ==
    [tok |-> [type |-> ty, text |-> text, line |-> lx.line, column |-> lx.col],
     lx |-> lexer_advance(s, lx, q)]

\* the end of a number that starts at pos_: digits and dots, an exponent,
\* a float suffix
number_end(s, p) ==
    LET body == span_end(s, IF At(s, p) = "-" THEN p + 1 ELSE p, DigitSet \cup {"."})
        sign == IF At(s, body + 1) \in {"+", "-"} THEN body + 2 ELSE body + 1
        expo == IF At(s, body) \in {"e", "E"} THEN span_end(s, sign, DigitSet) ELSE body
    IN  IF At(s, expo) \in {"f", "F"} THEN expo + 1 ELSE expo

\* the closing quote of the string literal whose text starts at p: a
\* backslash takes the next character with it
RECURSIVE string_end(_, _)
string_end(s, p) ==
    IF p > Len(s) \/ At(s, p) = "\"" THEN p
    ELSE IF At(s, p) = "\\" /\ p + 1 <= Len(s) THEN string_end(s, p + 2)
    ELSE string_end(s, p + 1)

Punctuation ==
    [ c \in {"{", "}", "(", ")", ";", ",", "=", "."} |->
        CASE c = "{" -> "lbrace"
          [] c = "}" -> "rbrace"
          [] c = "(" -> "lparen"
          [] c = ")" -> "rparen"
          [] c = ";" -> "semicolon"
          [] c = "," -> "comma"
          [] c = "=" -> "op_assign"
          [] c = "." -> "op_dot" ]

\* lexer::next_token, pos_ being inside the input
next_token(s, lx) ==
    LET p == lx.pos
        c == At(s, p)
    IN  IF c = "/" /\ At(s, p + 1) = "/"
        THEN LET q == span_until(s, p, {"\n"})
             IN  lexed(s, lx, q, "comment", SubSeq(s, p, q - 1))
        ELSE IF c = "\""
        THEN LET q == string_end(s, p + 1)
             IN  lexed(s, lx, IF q <= Len(s) THEN q + 1 ELSE q,
                       "string_literal", SubSeq(s, p + 1, q - 1))
        ELSE IF c \in DOMAIN Punctuation
        THEN lexed(s, lx, p + 1, Punctuation[c], c)
        ELSE IF c = ":"
        THEN (IF At(s, p + 1) = ":" THEN lexed(s, lx, p + 2, "op_scope", "::")
              ELSE lexed(s, lx, p + 1, "colon", ":"))
        ELSE IF isdigit(c) \/ (c = "-" /\ p + 1 <= Len(s) /\ isdigit(Ch(s, p + 1)))
        THEN LET q == number_end(s, p)
             IN  lexed(s, lx, q, "number", SubSeq(s, p, q - 1))
        ELSE IF isalpha(c) \/ c = "_"
        THEN LET q == span_end(s, p, AlnumSet \cup {"_"})
             IN  lexed(s, lx, q, classify_keyword(SubSeq(s, p, q - 1)), SubSeq(s, p, q - 1))
        ELSE lexed(s, lx, p + 1, "identifier", c)

\* lexer::tokenize: the loop from the lexer state lx on, tokens being
\* the tokens pushed so far; a comment token is not pushed
RECURSIVE tokenize_from(_, _, _)
tokenize_from(s, lx, tokens) ==
    LET \* the loop goes on after the token nt
        taken(nt) ==
            IF nt.tok.type = "comment" THEN tokenize_from(s, nt.lx, tokens)
            ELSE tokenize_from(s, nt.lx, Append(tokens, nt.tok))
        \* the loop with the white space skipped, the lexer being at
        from(at) ==
            IF lx.pos > Len(s) \/ at.pos > Len(s)
            THEN Append(tokens, [type |-> "eof", text |-> "", line |-> at.line,
                                 column |-> at.col])
            ELSE taken(next_token(s, at))
    IN  from(skip_whitespace(s, lx))

tokenize(s) == tokenize_from(s, [pos |-> 1, line |-> 1, col |-> 1], << >>)

\* n blanks
RECURSIVE blanks(_)
blanks(n) == IF n <= 0 THEN "" ELSE " " \o blanks(n - 1)

\* n line feeds
RECURSIVE line_feeds(_)
line_feeds(n) == IF n <= 0 THEN "" ELSE "\n" \o line_feeds(n - 1)

\* oc_parser::parse_update, pos_ being at the token 'update': the index of
\* the token at which the brace matching stops, start_pos being start
update_end(tokens, start) ==
    LET depth[i \in (start - 1)..Len(tokens)] ==
            IF i < start THEN 1
            ELSE depth[i - 1]
                 + (IF tokens[i].type = "lbrace" THEN 1 ELSE 0)
                 - (IF tokens[i].type = "rbrace" THEN 1 ELSE 0)
        stops == { i \in start..Len(tokens) : tokens[i].type = "eof" \/ depth[i] = 0 }
    IN  IF stops = {} THEN Len(tokens) + 1 ELSE CHOOSE i \in stops : \A j \in stops : i <= j

\* oc_parser::parse_update: what is written before token i of the body
spacing(tokens, start, i) ==
    LET prev == tokens[i - 1]
        curr == tokens[i]
    IN  IF i > start
        THEN (IF curr.line > prev.line
              THEN line_feeds(curr.line - prev.line) \o blanks(curr.column - 1)
              ELSE IF curr.column > prev.column + Len(prev.text)
              THEN blanks(curr.column - (prev.column + Len(prev.text)))
              ELSE " ")
        ELSE (IF curr.line > prev.line THEN "\n" \o blanks(curr.column - 1) ELSE "")

\* oc_parser::parse_update: raw_code, the tokens being those of a source
\* that opens with the keyword
parse_update(tokens) ==
    LET start == IF tokens[2].type = "lbrace" THEN 3 ELSE 2
        stop == update_end(tokens, start)
        code[i \in (start - 1)..(stop - 1)] ==
            IF i < start THEN ""
            ELSE code[i - 1] \o spacing(tokens, start, i) \o tokens[i].text
    IN  [raw_code |-> code[stop - 1]]

\* ---------------------------------------------------------------------
\* The OC parser at the top level of a file and the files oc_to_mdl reads
\* ---------------------------------------------------------------------

\* oc_parser::at_end, pos being pos_ + 1
at_end(tokens, pos) == pos > Len(tokens) \/ tokens[pos].type = "eof"

\* oc_parser::error: the error is placed at the current token, at 0:0 at
\* the end of the tokens
parse_error_at(tokens, pos, message) ==
    [ line |-> IF at_end(tokens, pos) THEN 0 ELSE tokens[pos].line,
      column |-> IF at_end(tokens, pos) THEN 0 ELSE tokens[pos].column,
      message |-> message ]

\* the text an error message quotes for the current token
got(tokens, pos) == IF at_end(tokens, pos) THEN "EOF" ELSE tokens[pos].text

\* oc_parser::expect for the token type ty, written name in messages; ps
\* holds pos_ and errors_
expect(tokens, ps, ty, name) ==
    IF ~at_end(tokens, ps.pos) /\ tokens[ps.pos].type = ty
    THEN [ps EXCEPT !.pos = @ + 1]
    ELSE [ps EXCEPT !.errors =
             Append(@, parse_error_at(tokens, ps.pos,
                        "Expected '" \o name \o "', got '" \o got(tokens, ps.pos) \o "'"))]

\* oc_parser::expect_identifier
expect_identifier(tokens, ps) ==
    IF /\ ~at_end(tokens, ps.pos)
       /\ tokens[ps.pos].type \in {"identifier", "kw_input", "kw_output", "kw_state",
                                   "kw_config", "kw_memory"}
    THEN [ps EXCEPT !.pos = @ + 1]
    ELSE [ps EXCEPT !.errors =
             Append(@, parse_error_at(tokens, ps.pos,
                        "Expected identifier, got '" \o got(tokens, ps.pos) \o "'"))]

\* oc_parser::parse_namespace, the loop over the body of a namespace that
\* holds no element, component or controller: every token up to the
\* closing brace is an error
RECURSIVE namespace_body(_, _)
namespace_body(tokens, ps) ==
    IF at_end(tokens, ps.pos) \/ tokens[ps.pos].type = "rbrace" THEN ps
    ELSE namespace_body(tokens,
             [pos |-> ps.pos + 1,
              errors |-> Append(ps.errors,
                  parse_error_at(tokens, ps.pos,
                      "Expected 'element', 'component', or 'controller' inside namespace"))])

\* oc_parser::parse_namespace
parse_namespace(tokens, ps) ==
    expect(tokens,
           namespace_body(tokens,
               expect(tokens,
                      expect_identifier(tokens, expect(tokens, ps, "kw_namespace", "namespace")),
                      "lbrace", "{")),
           "rbrace", "}")

\* oc_parser::parse, the loop over the top level of the file
RECURSIVE parse_top(_, _)
parse_top(tokens, ps) ==
    IF at_end(tokens, ps.pos) THEN ps
    ELSE IF tokens[ps.pos].type = "kw_namespace"
    THEN parse_top(tokens, parse_namespace(tokens, ps))
    ELSE parse_top(tokens,
             [pos |-> ps.pos + 1,
              errors |-> Append(ps.errors,
                  parse_error_at(tokens, ps.pos, "Expected 'namespace' at top level"))])

\* parse_string: the errors of the parse and whether there were none
parse_string(source) ==
    LET parse_result(errors) == [errors |-> errors, success |-> errors = << >>]
    IN  parse_result(parse_top(tokenize(source), [pos |-> 1, errors |-> << >>]).errors)

\* parse_error::to_string
error_to_string(err) ==
    to_string(err.line) \o ":" \o to_string(err.column) \o ": " \o err.message

\* a read that does not see that the file cannot be opened
read_file_blind(file) == file.source

\* oc_to_mdl read_file: the text of the file, nothing when it cannot be
\* opened
read_file(file) == IF file.readable THEN file.source ELSE ""

\* oc_to_mdl main, "Step 2: Parse each .oc file": the loop over the first
\* n paths; parsed holds the files pushed to oc_files, log the lines
\* written to the two streams
RECURSIVE parse_files(_, _)
parse_files(files, n) ==
    IF n = 0 THEN [parse_ok |-> TRUE, parsed |-> << >>, log |-> << >>]
    ELSE LET sofar == parse_files(files, n - 1)
             file == files[n]
             source == read_file(file)
             opened == Append(sofar.log, "  Parsing: " \o file.name)
             \* the file was read and parse_string returned result
             parsed_as(result) ==
                 IF ~result.success
                 THEN [parse_ok |-> FALSE, parsed |-> sofar.parsed,
                       log |-> opened \o << "  Syntax errors in " \o file.name \o ":" >>
                                 \o [k \in 1..Len(result.errors) |->
                                        "    " \o error_to_string(result.errors[k])]]
                 ELSE [parse_ok |-> sofar.parse_ok,
                       parsed |-> Append(sofar.parsed, file.name), log |-> opened]
         IN  IF source = ""
             THEN [parse_ok |-> FALSE, parsed |-> sofar.parsed,
                   log |-> Append(opened, "  Error: Could not read " \o file.name)]
             ELSE parsed_as(parse_string(source))

(***************************************************************************)
(* Container round trip: mdl_to_oc, oc_to_mdl, mdl_to_oc                   *)
(***************************************************************************)

PathChoices ==
    { "/simulink/systems/system_root.xml",
      "/simulink/blockdiagram.xml",
      "/simulink/bdmxdata/defs.mxarray" }

BodyChoices ==
    { "<System/>",
      "<P Name=\"a\\b\">\n</P>" }

\* what follows each part body in the input file
SepChoices == { "\n\n", "\n" }

\* a header saved by another release, and the one the emitter writes
HeaderChoices ==
    { mdl_header,
      "# MathWorks OPC Text Package\nModel {\n  Version  23.2\n  Description \"Simulink model saved in R2023b\"\n}\n__MWOPC_PACKAGE_BEGIN__ R2023b\n" }

PartChoices == [path : PathChoices, body : BodyChoices]

\* the text of one part of an input file
part_text(p, sep) ==
    marker \o p.path
      \o (IF EndsWith(p.path, ".mxarray") THEN " BASE64" ELSE "")
      \o "\n" \o p.body \o sep

RECURSIVE parts_text(_, _)
parts_text(ps, sep) ==
    IF ps = << >> THEN ""
    ELSE part_text(Head(ps), sep) \o parts_text(Tail(ps), sep)

InitOpc ==
    /\ src_parts \in UNION { [1..n -> PartChoices] : n \in 1..MaxParts }
    /\ \E h \in HeaderChoices, sep \in SepChoices :
           mdl = h \o parts_text(src_parts, sep)
    /\ oc_ok = FALSE
    /\ opc_pc = "start"
    /\ parts_1 = EmptyMap
    /\ meta = [part_order |-> << >>, raw_parts |-> EmptyMap]
    /\ sidecar = to_json([part_order |-> << >>, raw_parts |-> EmptyMap])
    /\ mdl_out = ""
    /\ parts_2 = EmptyMap
    /\ oc_dir = << >>
    /\ oc_log = << >>
    /\ oc_exit = -1
    /\ oc_dir_2 = << >>
    /\ mdl_out_2 = ""
    /\ GenIdle
    /\ LibIdle

\* mdl_to_oc main: load the file, stop without a root system, else export
\* the .oc files and the sidecar
RunMdlToOc ==
    /\ opc_pc = "start"
    /\ LET parts == load(mdl) IN
       IF parts = EmptyMap \/ ~has_root_system(parts)
       THEN /\ opc_pc' = "export_failed"
            /\ UNCHANGED << parts_1, meta, sidecar >>
       ELSE /\ opc_pc' = "exported"
            /\ parts_1' = parts
            /\ meta' = build_metadata(parts)
            /\ sidecar' = to_json(build_metadata(parts))
    /\ UNCHANGED << src_parts, mdl, oc_ok, mdl_out, parts_2, oc_dir, oc_log, oc_exit,
                    oc_dir_2, mdl_out_2 >>
    /\ UNCHANGED << gen_vars, lib_vars >>

\* the most .oc files of a directory
MaxFiles == 2

\* .oc files: one that cannot be opened, an empty one, one that parses and
\* two with syntax errors.  None holds an element, a component or a
\* controller
OcFileChoices ==
    { [readable |-> FALSE, source |-> "namespace m {}\n"],
      [readable |-> TRUE, source |-> ""],
      [readable |-> TRUE, source |-> "namespace m {}\n"],
      [readable |-> TRUE, source |-> "namespace m {\n"],
      [readable |-> TRUE, source |-> "x\nnamespace 7 {}\n"] }

\* the directories: file i is named f<i>.oc
OcDirs ==
    { [i \in 1..n |-> [name |-> "f" \o to_string(i) \o ".oc", readable |-> c[i].readable,
                        source |-> c[i].source]] :
        n \in 0..MaxFiles, c \in [1..MaxFiles -> OcFileChoices] }

\* a step 4 that writes the parsed files after the parts of the sidecar
mdl_content_with_files(read_meta, oc_files) ==
    write_with_metadata(read_meta) \o
    (IF oc_files = << >> THEN "" ELSE oc_files[Len(oc_files)].source)

\* oc_to_mdl main, step 4 with the sidecar read: the file is written from
\* the metadata, and the parsed files are not looked at
mdl_content(read_meta, oc_files) == write_with_metadata(read_meta)

\* oc_to_mdl main with a sidecar in the directory, the directory being one
\* of dirs: abort without .oc files or when a file is not read or not
\* parsed, else write the file from the sidecar.  The run after the export
\* is the first one; a run after a file was written is a second one on the
\* same sidecar, with another output file
oc_to_mdl_main(pcs, dirs) ==
    LET first == opc_pc = "exported" IN
    /\ opc_pc \in pcs
    /\ \E dir \in dirs :
          \E r \in { parse_files(dir, Len(dir)) } :
          /\ IF first THEN oc_dir' = dir /\ UNCHANGED oc_dir_2
                      ELSE oc_dir_2' = dir /\ UNCHANGED oc_dir
          /\ oc_ok' = (dir # << >> /\ r.parse_ok)
          /\ oc_log' = IF dir = << >> THEN << "Error: No .oc files found" >>
                       ELSE IF ~r.parse_ok
                       THEN Append(r.log, "Error: Aborting due to parse errors")
                       ELSE r.log
    /\ IF ~oc_ok'
       THEN /\ opc_pc' = IF first THEN "aborted" ELSE "aborted_again"
            /\ oc_exit' = 1
            /\ UNCHANGED << mdl_out, mdl_out_2 >>
       ELSE /\ opc_pc' = IF first THEN "written" ELSE "written_again"
            /\ oc_exit' = 0
            /\ IF first
               THEN /\ mdl_out' = mdl_content(from_json(sidecar), oc_dir')
                    /\ UNCHANGED mdl_out_2
               ELSE /\ mdl_out_2' = mdl_content(from_json(sidecar), oc_dir_2')
                    /\ UNCHANGED mdl_out
    /\ UNCHANGED << src_parts, mdl, parts_1, meta, sidecar, parts_2 >>
    /\ UNCHANGED << gen_vars, lib_vars >>

\* oc_to_mdl run once on the exported directory, whose .oc files may have
\* been changed since the export
RunOcToMdl == oc_to_mdl_main({"exported"}, OcDirs)

\* the lines oc_to_mdl has written
logged == { oc_log[k] : k \in 1..Len(oc_log) }

\* the errors the parser finds in each file of the directory
dir_errors == [i \in 1..Len(oc_dir) |-> parse_string(oc_dir[i].source).errors]

\* C15: when a file of the directory cannot be read or has parse errors,
\* oc_to_mdl returns non-zero and writes no file, a sidecar being there and
\* other files being parsed without error; every file has been opened, and
\* every error of every file that was read has been written
C15_AbortsOnBadFile ==
    LET errors == dir_errors IN
    (oc_exit # -1 /\ \E i \in 1..Len(oc_dir) : ~oc_dir[i].readable \/ errors[i] # << >>) =>
        /\ oc_exit # 0
        /\ opc_pc = "aborted"
        /\ mdl_out = ""
        /\ \A i \in 1..Len(oc_dir) :
              /\ ("  Parsing: " \o oc_dir[i].name) \in logged
              /\ ~oc_dir[i].readable =>
                    ("  Error: Could not read " \o oc_dir[i].name) \in logged
              /\ oc_dir[i].readable =>
                    \A k \in 1..Len(errors[i]) :
                        ("    " \o error_to_string(errors[i][k])) \in logged

\* a directory whose first file has syntax errors and whose second file
\* parses has been read, the sidecar being there: the second file was
\* opened and the run was aborted
C15_Witness ==
    /\ oc_exit = 1
    /\ Len(oc_dir) = 2
    /\ oc_dir[1].readable /\ Len(dir_errors[1]) > 1
    /\ oc_dir[2].readable /\ oc_dir[2].source # ""
    /\ dir_errors[2] = << >>
    /\ "  Parsing: f2.oc" \in logged
    /\ from_json(sidecar).part_order # << >>

\* mdl_to_oc main run on the file oc_to_mdl wrote
RunMdlToOcAgain ==
    /\ opc_pc = "written"
    /\ LET parts == load(mdl_out) IN
       IF parts = EmptyMap \/ ~has_root_system(parts)
       THEN /\ opc_pc' = "reexport_failed"
            /\ UNCHANGED parts_2
       ELSE /\ opc_pc' = "reexported"
            /\ parts_2' = parts
    /\ UNCHANGED << src_parts, mdl, oc_ok, parts_1, meta, sidecar, mdl_out, oc_dir, oc_log, oc_exit,
                    oc_dir_2, mdl_out_2 >>
    /\ UNCHANGED << gen_vars, lib_vars >>

NextOpc == RunMdlToOc \/ RunOcToMdl \/ RunMdlToOcAgain

SpecOpc == InitOpc /\ [][NextOpc]_vars

\* the part paths of the input file in file order
original_order == [i \in 1..Len(src_parts) |-> src_parts[i].path]

distinct_paths ==
    \A i, j \in 1..Len(src_parts) :
        i # j => src_parts[i].path # src_parts[j].path

\* C1: the file written from the sidecar of M is byte-identical to M
C1_VerbatimRoundTrip ==
    opc_pc \in {"written", "reexported", "reexport_failed"} => mdl_out = mdl

\* C2: for a file with distinct part paths, part_order of the sidecar lists
\* the paths in the order in which the parts appear in the file
C2_PartOrderIsFileOrder ==
    (opc_pc \in {"exported", "written", "reexported", "aborted"} /\ distinct_paths)
        => meta.part_order = original_order

\* C3: mdl_to_oc run on the file written by oc_to_mdl reads the same parts
\* (hence the same systems, hence emits the same OC text) as the first run
C3_SecondExportReadsSameParts ==
    opc_pc = "reexported" => parts_2 = parts_1

\* a second export whose input differs from M although its parts agree
C3_Witness ==
    /\ opc_pc = "reexported"
    /\ mdl_out # mdl
    /\ Cardinality(DOMAIN parts_1) >= 2
    /\ \E k \in DOMAIN parts_1 : Find(parts_1[k], "\\", 1) # 0

(***************************************************************************)
(* Export of a system: oc_writer::convert calling generate_parts           *)
(***************************************************************************)

\* a TransferFcn block of the model makes the generator read a coefficient
\* past the end of its vector
past_end_read ==
    \E id \in DOMAIN systems :
        \E b \in 1..Len(systems[id].blocks) :
            /\ systems[id].blocks[b].type = "TransferFcn"
            /\ reads_past_end(parse_transfer_function(systems[id].blocks[b]))

\* oc_writer::convert for the exported system: generate_parts; an
\* exception leaves the driver through main, and a read past the end of a
\* vector may end the process or go on with what the memory holds
Generate ==
    /\ gen_pc \in {"start", "relisted"}
    /\ generated' = generate_parts(systems, systems[top], "")
    /\ gen_pc' \in (IF generated'.fault # "none" THEN {"terminated"} ELSE {})
                   \cup (IF generated'.fault = "none" /\ past_end_read THEN {"terminated"}
                         ELSE {})
                   \cup (IF generated'.fault # "none" THEN {}
                         ELSE IF gen_pc = "start" THEN {"generated"}
                         ELSE {"regenerated"})
    /\ UNCHANGED << systems, top, element, beyond, prev_sorted_sids, lifted, call_stack, inline_code >>
    /\ UNCHANGED << opc_vars, lib_vars >>

Reverse(seq) == [i \in 1..Len(seq) |-> seq[Len(seq) + 1 - i]]

Rotate(seq) == IF seq = << >> THEN seq ELSE Tail(seq) \o << Head(seq) >>

\* the same model stored with its blocks and connections listed in another
\* order, given to the exporter again
Relist ==
    /\ gen_pc = "generated"
    /\ \E o \in { << Reverse(systems[top].blocks), Reverse(systems[top].connections) >>,
                    << Rotate(systems[top].blocks), systems[top].connections >> } :
          systems' = [systems EXCEPT ![top] = [blocks |-> o[1], connections |-> o[2]]]
    /\ prev_sorted_sids' = generated.sorted_sids
    /\ gen_pc' = "relisted"
    /\ UNCHANGED << top, element, beyond, generated, lifted, call_stack, inline_code >>
    /\ UNCHANGED << opc_vars, lib_vars >>

(***************************************************************************)
(* Scheduling: systems of an Inport, some Gain and UnitDelay blocks and an *)
(* Outport, wired in every way                                             *)
(***************************************************************************)

\* the largest number of blocks between the Inport and the Outport
MaxBlocks == 2

\* the largest number of wires of a system
MaxWires == 2

SchedTypes == { "Gain", "UnitDelay" }

Block(type, name, sid) ==
    [type |-> type, name |-> name, sid |-> sid, port_out |-> 1, subsystem_ref |-> "",
     parameters |-> EmptyMap, mask_parameters |-> << >>]

\* the blocks of a system with inner blocks of the given types: the Inport
\* has sid 1, the inner blocks 2, 3, ... and the Outport the next one
sched_blocks(types) ==
    << Block("Inport", "u", "1") >>
      \o [i \in 1..Len(types) |-> Block(types[i], "B" \o to_string(i + 1), to_string(i + 1))]
      \o << Block("Outport", "y", to_string(Len(types) + 2)) >>

\* the wires a system with k inner blocks can have, as pairs of sids
sched_wires(k) ==
    { << to_string(s), to_string(d) >> : s \in 1..(k + 1), d \in 2..(k + 2) }

\* the wires of W that leave sid s, as destination strings; the wires that
\* enter one block take its input ports in the order of their sources
wire_dsts(W, k, s) ==
    LET port(d) == Cardinality({ t \in 1..s : << to_string(t), to_string(d) >> \in W })
        ds == SelectSeq([d \in 1..(k + 2) |-> d],
                        LAMBDA d : << to_string(s), to_string(d) >> \in W)
    IN  [j \in 1..Len(ds) |-> to_string(ds[j]) \o "#in:" \o to_string(port(ds[j]))]

\* the connections of a system: one line for each source that has wires,
\* the first destination on the line and the others on its branches
sched_connections(W, k) ==
    LET srcs == SelectSeq([s \in 1..(k + 1) |-> s],
                          LAMBDA s : wire_dsts(W, k, s) # << >>)
    IN  [j \in 1..Len(srcs) |->
            [ source |-> out_key(to_string(srcs[j]), 1),
              destination |-> Head(wire_dsts(W, k, srcs[j])),
              branches |-> Tail(wire_dsts(W, k, srcs[j])) ]]

SchedSystems ==
    { [blocks |-> sched_blocks(types), connections |-> sched_connections(W, Len(types))] :
        << types, W >> \in
            UNION { [1..k -> SchedTypes] \X
                      { W \in SUBSET sched_wires(k) : Cardinality(W) <= MaxWires } :
                    k \in 1..MaxBlocks } }

Init ==
    /\ OpcIdle
    /\ LibIdle
    /\ top = "system_2"
    /\ \E sys \in SchedSystems : systems = [id \in {"system_2"} |-> sys]
    /\ gen_pc = "start"
    /\ generated = NoParts
    /\ prev_sorted_sids = << >>
    /\ call_stack = << >>
    /\ inline_code = << >>
    /\ element = NoElement
    /\ beyond = 0
    /\ lifted = NoLift

Next == Generate \/ Relist

Spec == Init /\ [][Next]_vars

(***************************************************************************)
(* The scheduler                                                           *)
(***************************************************************************)

\* the export ran to its end
exported == gen_pc \in {"generated", "regenerated", "lifted"}

\* the sids of the blocks of a system
sids_of(sys) == { sys.blocks[i].sid : i \in 1..Len(sys.blocks) }

\* the block of a system with a sid that only one block has
block_of(sys, sid) == sys.blocks[CHOOSE i \in 1..Len(sys.blocks) : sys.blocks[i].sid = sid]

\* the endpoints a connection names: its source and its destinations
conn_wires(conn) ==
    { << endpoint_parse(conn.source), endpoint_parse(conn_dests(conn)[j]) >> :
        j \in 1..Len(conn_dests(conn)) }

\* the wires of a system as pairs of parsed endpoints
wires(sys) == UNION { conn_wires(sys.connections[n]) : n \in 1..Len(sys.connections) }

\* the dependency edges u -> v of a system whose source is neither an
\* Inport nor a stateful block, as pairs of sids
dep_edges(sys) ==
    { << w[1].block_sid, w[2].block_sid >> :
        w \in { x \in wires(sys) :
                  /\ x[1].block_sid \in sids_of(sys)
                  /\ x[2].block_sid \in sids_of(sys)
                  /\ ~is_inport(block_of(sys, x[1].block_sid))
                  /\ ~is_stateful(block_of(sys, x[1].block_sid)) } }

\* the sids that can be reached from sid s along at least one edge of E, in
\* at most n steps
RECURSIVE reach(_, _, _)
reach(E, s, n) ==
    IF n = 0 THEN {}
    ELSE { e[2] : e \in { x \in E : x[1] = s \/ x[1] \in reach(E, s, n - 1) } }

\* the sids that lie on a cycle of E
on_cycle(E) == { e[1] : e \in { x \in E : x[1] \in reach(E, x[1], Cardinality(E)) } }

\* a system the scheduler is specified for: every block has its own sid,
\* every endpoint parses and names a block, and no cycle is left once the
\* edges that leave Inports and stateful blocks are taken away
well_formed(sys) ==
    /\ Cardinality(sids_of(sys)) = Len(sys.blocks)
    /\ \A w \in wires(sys) :
          /\ w[1].ok /\ w[1].block_sid \in sids_of(sys)
          /\ w[2].ok /\ w[2].block_sid \in sids_of(sys)
    /\ on_cycle(dep_edges(sys)) = {}

\* the positions of a sid in an order
positions(order, sid) == { i \in 1..Len(order) : order[i] = sid }

\* C4: for a well-formed system the order the scheduler computes holds the
\* sid of every block that is no Inport exactly once, and for every
\* dependency edge u -> v whose source is neither an Inport nor a stateful
\* block, u comes before v
C4_TopologicalOrder ==
    (exported /\ well_formed(systems[top])) =>
        /\ \A s \in non_inport_sids(systems[top]) :
              Cardinality(positions(generated.sorted_sids, s)) = 1
        /\ \A i \in 1..Len(generated.sorted_sids) :
              generated.sorted_sids[i] \in non_inport_sids(systems[top])
        /\ \A e \in dep_edges(systems[top]) :
              \A i \in positions(generated.sorted_sids, e[1]) :
                  \A j \in positions(generated.sorted_sids, e[2]) : i < j

\* a well-formed system has been scheduled in which the block with sid 3
\* feeds the block with sid 2, so the order is not the order of the sids
C4_Witness ==
    /\ exported
    /\ well_formed(systems[top])
    /\ << "3", "2" >> \in dep_edges(systems[top])
    /\ generated.sorted_sids = << "3", "2", "4" >>

\* is the word unbreakable_cycle written anywhere in the generated code
cycle_reported ==
    \E i \in 1..Len(generated.operation_code) :
        Find(generated.operation_code[i], "unbreakable_cycle", 1) # 0

\* C5: when a cycle is left after the edges that leave stateful blocks and
\* Inports are taken away, the export that runs to its end surfaces an
\* unbreakable_cycle diagnostic and every block that is no Inport is in the
\* order that is emitted
C5_CycleIsSurfaced ==
    (exported /\ on_cycle(dep_edges(systems[top])) # {}) =>
        /\ cycle_reported
        /\ \A s \in non_inport_sids(systems[top]) :
              positions(generated.sorted_sids, s) # {}

\* C7: the same blocks and connections listed in another order are
\* scheduled in the same order
C7_SameOrderWhenRelisted ==
    gen_pc = "regenerated" => generated.sorted_sids = prev_sorted_sids

\* a relisted system has been scheduled whose order is neither the order of
\* its new listing nor that of the old one
C7_Witness ==
    /\ gen_pc = "regenerated"
    /\ Len(generated.sorted_sids) = 3
    /\ generated.sorted_sids # SelectSeq([i \in 1..Len(systems[top].blocks) |->
                                  systems[top].blocks[i].sid],
                               LAMBDA s : s \in non_inport_sids(systems[top]))
    /\ generated.sorted_sids[1] # "2"

(***************************************************************************)
(* Emission and lifting: chains of blocks of every kind between an Inport  *)
(* and an Outport, exported and then lifted                                *)
(***************************************************************************)

\* the update body of the exported element is lifted
Lift ==
    /\ gen_pc = "generated"
    /\ lifted' = generate(extract_update_body(written_update(generated.operation_code),
                                              1, 1),
                          generated.inports, generated.outports, << >>, 1)
    /\ gen_pc' = "lifted"
    /\ UNCHANGED << systems, top, element, beyond, generated, prev_sorted_sids, call_stack, inline_code >>
    /\ UNCHANGED << opc_vars, lib_vars >>

\* the largest number of blocks of a chain
MaxChain == 2

EmitTypes ==
    { "Gain", "UnitDelay", "Memory", "Integrator", "DiscreteIntegrator", "SubSystem",
      "Demux", "Foo" }

Wire(src, dst) == [source |-> src, destination |-> dst, branches |-> << >>]

\* the system a SubSystem block of a chain refers to
ChildSystem ==
    [ blocks |-> << Block("Inport", "a", "1"), Block("Gain", "g", "2"),
                    Block("Outport", "o", "3") >>,
      connections |-> << Wire("1#out:1", "2#in:1"), Wire("2#out:1", "3#in:1") >> ]

\* a block of a chain: a Demux has two outputs, a SubSystem refers to the
\* child system
chain_block(type, sid) ==
    [Block(type, "B" \o sid, sid) EXCEPT
        !.port_out = IF type = "Demux" THEN 2 ELSE 1,
        !.subsystem_ref = IF type = "SubSystem" THEN "system_3" ELSE ""]

\* the chain Inport -> types[1] -> ... -> Outport whose i-th block has sid
\* sids[i]; the Outport is fed by output 1 of the last block, by nothing,
\* or by its output 2
chain_system(types, sids, out_src) ==
    [ blocks |->
          << Block("Inport", "u", "1") >>
            \o [i \in 1..Len(types) |-> chain_block(types[i], sids[i])]
            \o << Block("Outport", "y", to_string(Len(types) + 2)) >>,
      connections |->
          [i \in 1..Len(types) |->
              Wire(IF i = 1 THEN "1#out:1" ELSE out_key(sids[i - 1], 1),
                   sids[i] \o "#in:1")]
            \o (IF out_src = "none" THEN << >>
                ELSE << Wire(out_key(sids[Len(types)], IF out_src = "last" THEN 1 ELSE 2),
                             to_string(Len(types) + 2) \o "#in:1") >>) ]

\* the sids of a chain of k blocks, rising or falling along the chain
chain_sids(k) ==
    { [i \in 1..k |-> to_string(i + 1)], [i \in 1..k |-> to_string(k + 2 - i)] }

EmitSystems ==
    { chain_system(c[1], c[2], c[3]) :
        c \in UNION { [1..k -> EmitTypes] \X chain_sids(k) \X {"last", "none", "port2"} :
                      k \in 1..MaxChain } }

InitEmit ==
    /\ OpcIdle
    /\ LibIdle
    /\ top = "system_2"
    /\ \E sys \in EmitSystems :
          systems = [id \in {"system_2", "system_3"} |->
                        IF id = "system_2" THEN sys ELSE ChildSystem]
    /\ gen_pc = "start"
    /\ generated = NoParts
    /\ lifted = NoLift
    /\ prev_sorted_sids = << >>
    /\ call_stack = << >>
    /\ inline_code = << >>
    /\ element = NoElement
    /\ beyond = 0

NextEmit == Generate \/ Lift

SpecEmit == InitEmit /\ [][NextEmit]_vars

\* the blocks of the exported system that are neither Inport nor Outport
inner_blocks ==
    { b \in { systems[top].blocks[i] : i \in 1..Len(systems[top].blocks) } :
        ~is_inport(b) /\ ~is_outport(b) }

\* the lines of the update body that hold the text pat
lines_with(pat) ==
    { j \in 1..Len(generated.operation_code) : Has(generated.operation_code[j], pat) }

\* the lines of the update body that open with the text pat
lines_from(pat) ==
    { j \in 1..Len(generated.operation_code) :
        StartsWith(generated.operation_code[j], pat) }

\* the lines that update the state variable sv
updates_of(sv) == lines_from(sv \o " = ") \cup lines_from(sv \o " += ")

\* C6: for every UnitDelay, Memory, Integrator and DiscreteIntegrator block
\* every line of the update body that reads the state variable of the
\* block, a block statement or an out.<name> assignment, comes before the
\* line that updates it
C6_StateReadBeforeUpdate ==
    exported =>
        \A b \in { x \in inner_blocks : is_stateful(x) } :
            \A r \in lines_with(state_var_of(systems[top], "", b.sid))
                        \ updates_of(state_var_of(systems[top], "", b.sid)) :
                \A u \in updates_of(state_var_of(systems[top], "", b.sid)) : r < u

\* C8: every scheduled block that is neither an Inport nor an Outport has
\* the comment line "// <BlockType>: <BlockName>" in the update body
C8_BlockCommentPresent ==
    exported =>
        \A b \in { x \in inner_blocks : positions(generated.sorted_sids, x.sid) # {} } :
            \E j \in 1..Len(generated.operation_code) :
                generated.operation_code[j] = "// " \o b.type \o ": " \o b.name

\* the input expressions the exporter has for the blocks of the system
inputs_built ==
    build_dependencies(systems[top],
        assign_signals(systems[top], "", inport_signals(inports(systems[top])),
                       Len(systems[top].blocks)),
        Len(systems[top].connections)).block_inputs

\* C9: after generate_parts every Outport has an out.<name> assignment and
\* every connected input port of a block has a source expression that is
\* written in the update body, or an unresolved reference is reported
C9_EveryDestinationAssigned ==
    exported =>
        \/ lines_with("unresolved") # {}
        \/ /\ \A o \in { systems[top].blocks[i] : i \in 1..Len(systems[top].blocks) } :
                 is_outport(o) => lines_from("out." \o sanitize_name(o.name) \o " = ") # {}
           /\ \A b \in inner_blocks :
                 \A p \in 1..Len(inputs_built[b.sid]) :
                     inputs_built[b.sid][p] # "" => lines_with(inputs_built[b.sid][p]) # {}

\* the lifted blocks that have the type and the name of a block
lifted_as(blk) ==
    { i \in 1..Len(lifted.blocks) :
        lifted.blocks[i].type = blk.type /\ lifted.blocks[i].name = blk.name }

\* is the lifted block m fed on its port 1 by the lifted block f
lifted_feeds(f, m) ==
    \E c \in 1..Len(lifted.connections) :
        /\ lifted.connections[c].src_sid = lifted.blocks[f].sid
        /\ lifted.connections[c].dst_sid = lifted.blocks[m].sid
        /\ lifted.connections[c].dst_port = 1

\* C10: lifting the exported update body gives, for each UnitDelay, Memory,
\* Integrator and DiscreteIntegrator block, exactly one block of that type
\* and name, fed by the block that fed it in the exported system
C10_StatefulBlocksLifted ==
    gen_pc = "lifted" =>
        \A b \in { x \in inner_blocks : is_stateful(x) } :
            /\ Cardinality(lifted_as(b)) = 1
            /\ \A w \in { x \in wires(systems[top]) : x[2].block_sid = b.sid } :
                  \E m \in lifted_as(b) :
                      \E f \in lifted_as(block_of(systems[top], w[1].block_sid)) :
                          lifted_feeds(f, m)

\* the state variables the pre-scan of the exported update body reserves
\* a block id for
reserved_state_vars ==
    LET body == extract_update_body(written_update(generated.operation_code), 1, 1)
        found == prescan_body(body, lift_start(generated.inports, 1, 0)).state_vars
    IN  { found[i] : i \in 1..Len(found) }

\* the lines of the exported update body that declare a variable from the
\* state variable sv and stand before the update of sv
early_readers(sv) ==
    { j \in lines_from("auto ") :
        /\ Has(generated.operation_code[j], sv)
        /\ \A u \in updates_of(sv) : j < u }

\* the variable the line "auto <name> = ..." declares
declared_by(line) == trim(SubSeq(line, 6, Find(line, "=", 1) - 1))

\* the id reserved for the state variable of block b is the id of exactly
\* one lifted block, which has the type and the name of b, and every
\* lifted statement that reads the state variable before its update is
\* fed by that block and by no other
reserved_is_created(b) ==
    LET sv == state_var_of(systems[top], "", b.sid)
        ids == { r.reserved_sid : r \in { x \in reserved_state_vars : x.state_key = sv } }
    IN  /\ Cardinality(ids) = 1
        /\ \A id \in ids :
              /\ Cardinality({ i \in 1..Len(lifted.blocks) : lifted.blocks[i].sid = id }) = 1
              /\ \A i \in 1..Len(lifted.blocks) :
                     lifted.blocks[i].sid = id =>
                         lifted.blocks[i].type = b.type /\ lifted.blocks[i].name = b.name
              /\ \A j \in early_readers(sv) :
                     LET v == declared_by(generated.operation_code[j]) IN
                     v \in DOMAIN lifted.var_map =>
                         /\ \E c \in 1..Len(lifted.connections) :
                                /\ lifted.connections[c].dst_sid = lifted.var_map[v][1]
                                /\ lifted.connections[c].src_sid = id
                         /\ \A c \in 1..Len(lifted.connections) :
                                lifted.connections[c].dst_sid = lifted.var_map[v][1]
                                    => lifted.connections[c].src_sid = id

\* C24: for every stateful block of an exported update body the id the
\* pre-scan reserves is the id of the one block the main pass makes at the
\* update statement of the block, and a statement that reads the state
\* variable before that update is connected to that block and to no other
C24_ReservedIdIsTheBlock ==
    gen_pc = "lifted" =>
        \A b \in { x \in inner_blocks : is_stateful(x) } : reserved_is_created(b)

\* a statement without its comments: the text before "//" with every
\* "/* ... */" taken out
RECURSIVE uncommented(_)
uncommented(text) ==
    LET code == IF Has(text, "//") THEN SubSeq(text, 1, Find(text, "//", 1) - 1) ELSE text
        open == Find(code, "/*", 1)
        close == Find(code, "*/", open + 2)
    IN  IF open = 0 THEN code
        ELSE IF close = 0 THEN SubSeq(code, 1, open - 1)
        ELSE uncommented(SubSeq(code, 1, open - 1) \o SubSeq(code, close + 2, Len(code)))

\* the characters of a name of C++, with the dot of a member access
word_char(c) == isalnum(c) \/ c \in {"_", "."}

\* the names written in a text: its longest runs of word characters that
\* open with a letter or an underscore, function names of a namespace
\* left out
names_in(text) ==
    LET starts == { a \in 1..Len(text) :
                      /\ word_char(Ch(text, a))
                      /\ a = 1 \/ ~word_char(Ch(text, a - 1)) }
        end_of(a) == CHOOSE b \in a..Len(text) :
                        /\ \A i \in a..b : word_char(Ch(text, i))
                        /\ b = Len(text) \/ ~word_char(Ch(text, b + 1))
    IN  { SubSeq(text, a, end_of(a)) :
            a \in { x \in starts :
                      /\ isalpha(Ch(text, x)) \/ Ch(text, x) = "_"
                      /\ ~(end_of(x) + 2 <= Len(text)
                            /\ SubSeq(text, end_of(x) + 1, end_of(x) + 2) = "::")
                      /\ ~(x > 2 /\ SubSeq(text, x - 2, x - 1) = "::") } }

\* the local variables line j of the update body reads: the names right of
\* its "=" that are no input, state or configuration variable
local_reads(j) ==
    LET line == generated.operation_code[j]
        value == uncommented(SubSeq(line, Find(line, "=", 1) + 1, Len(line)))
    IN  IF StartsWith(line, "//") \/ ~Has(line, "=") THEN {}
        ELSE { w \in names_in(value) :
                 ~StartsWith(w, "in.") /\ ~StartsWith(w, "state.") /\ ~StartsWith(w, "cfg.") }

\* line j reads only local variables that an earlier line declares
declared_before(j) ==
    \A w \in local_reads(j) :
        \E i \in 1..(j - 1) : StartsWith(generated.operation_code[i], "auto " \o w \o " =")

\* C25: in the update body generate_parts emits for a system without a
\* cycle among its blocks that keep no state, every local variable a
\* statement or an out.<name> assignment reads is declared by an auto
\* statement earlier in the body, the outputs of Demux and SubSystem
\* blocks included
C25_ReadsAreDeclared ==
    (exported /\ on_cycle(dep_edges(systems[top])) = {}) =>
        \A j \in 1..Len(generated.operation_code) : declared_before(j)

(***************************************************************************)
(* Unresolved references of the lifter                                     *)
(***************************************************************************)

\* the lines the lifter is given: the update body of the exported element
lifted_lines == extract_update_body(written_update(generated.operation_code), 1, 1)

\* the text assigned to each output in the lines after "// Outputs"
assigned_outputs ==
    extract_output_assignments(lifted_lines, [result |-> EmptyMap, in_outputs |-> FALSE],
                               1, Len(lifted_lines)).result

\* the outputs whose expression is no variable of var_map
unresolved_outputs ==
    { name \in DOMAIN assigned_outputs : assigned_outputs[name] \notin DOMAIN lifted.var_map }

\* the lifted Outport blocks of a name
lifted_outport(name) ==
    { i \in 1..Len(lifted.blocks) :
        lifted.blocks[i].type = "Outport" /\ lifted.blocks[i].name = name }

\* does anything the lift returns name an unresolved reference: generate
\* returns the blocks and the connections and prints nothing
lift_reported ==
    \E i \in 1..Len(lifted.blocks) :
        \/ Has(lifted.blocks[i].name, "unresolved")
        \/ Has(lifted.blocks[i].type, "unresolved")

\* C12: when the expression assigned to an output resolves to no known
\* signal, the lifter emits no connection for that Outport and surfaces
\* the failure as a diagnostic
C12_UnresolvedIsSurfaced ==
    (gen_pc = "lifted" /\ unresolved_outputs # {}) =>
        /\ \A name \in unresolved_outputs :
              \A i \in lifted_outport(name) :
                  \A c \in 1..Len(lifted.connections) :
                      lifted.connections[c].dst_sid # lifted.blocks[i].sid
        /\ lift_reported

(***************************************************************************)
(* The config section: chains of blocks that read cfg.dt or not, with and  *)
(* without parameter values that name workspace variables                  *)
(***************************************************************************)

CfgTypes ==
    { "Gain", "Integrator", "DiscreteIntegrator", "Derivative", "TransferFcn",
      "SubSystem" }

\* a parameter value of a block of a chain; the empty string stands for a
\* block without parameters
ParamChoices == { "", "K", "2*pi", "x0 + 1" }

\* the chain Inport -> types[1] -> ... -> Outport where block i has the
\* parameter value values[i]: the Gain of a Gain block, the
\* InitialCondition of another block; a TransferFcn is 1 / (s + 1)
cfg_system(types, values) ==
    LET sys == chain_system(types, [i \in 1..Len(types) |-> to_string(i + 1)], "last")
        tf(blk) ==
            IF blk.type = "TransferFcn"
            THEN [k \in {"Numerator", "Denominator"} |->
                     IF k = "Numerator" THEN "[1]" ELSE "[1 1]"]
            ELSE EmptyMap
        with(blk, i) ==
            IF ~(i - 1 \in 1..Len(types)) THEN blk
            ELSE [blk EXCEPT !.parameters =
                     IF values[i - 1] = "" THEN tf(blk)
                     ELSE [k \in DOMAIN tf(blk)
                                   \cup {IF blk.type = "Gain" THEN "Gain"
                                         ELSE "InitialCondition"} |->
                              IF k \in DOMAIN tf(blk) THEN tf(blk)[k] ELSE values[i - 1]]]
    IN  [sys EXCEPT !.blocks = [i \in 1..Len(sys.blocks) |-> with(sys.blocks[i], i)]]

CfgSystems ==
    { cfg_system(c[1], c[2]) :
        c \in UNION { [1..k -> CfgTypes] \X [1..k -> ParamChoices] : k \in 1..MaxChain } }

\* the system a SubSystem block refers to, its Gain a number or a
\* workspace variable
CfgChildren ==
    { ChildSystem,
      [ChildSystem EXCEPT !.blocks[2].parameters = [k \in {"Gain"} |-> "Kc"]] }

InitCfg ==
    /\ OpcIdle
    /\ LibIdle
    /\ top = "system_2"
    /\ \E sys \in CfgSystems, child \in CfgChildren :
          systems = [id \in {"system_2", "system_3"} |->
                        IF id = "system_2" THEN sys ELSE child]
    /\ gen_pc = "start"
    /\ generated = NoParts
    /\ lifted = NoLift
    /\ prev_sorted_sids = << >>
    /\ call_stack = << >>
    /\ inline_code = << >>
    /\ element = NoElement
    /\ beyond = 0

SpecCfg == InitCfg /\ [][Generate]_vars

\* the lines of the config section written for the exported system
config_section == written_config(generated)

\* C16: for every system the forward path converts, the written element
\* has a config section and the section declares dt, whether or not a
\* configuration identifier was collected and also when the update body
\* reads cfg.dt
C16_DtIsAlwaysAdded ==
    gen_pc = "generated" =>
        \E i \in 1..Len(config_section) :
            StartsWith(config_section[i], "        float dt = ")

(***************************************************************************)
(* Export and lift of systems of Inports, Gain blocks, Sum blocks and an   *)
(* Outport, every port connected                                           *)
(***************************************************************************)

\* the largest number of Inports and of blocks between them and the Outport
MaxInports == 2

MaxLiftBlocks == 2

\* the name of Inport number p of ins: u, v, v3, ...; with spaced the last
\* one is named the way the block library names a port, "In 2"
inport_name(p, ins, spaced) ==
    IF spaced /\ p = ins THEN "In " \o to_string(p)
    ELSE IF p = 1 THEN "u"
    ELSE IF p = 2 THEN "v"
    ELSE "v" \o to_string(p)

\* the Inputs parameter of a Sum block; the empty string stands for a Sum
\* without the parameter
SumInputs == { "", "+-", "|-+" }

\* the system with ins Inports, the inner blocks of the given types and
\* one Outport.  Block number p (Inports first, the Outport last) has sid
\* sids[p]; srcs[i] holds the numbers of the blocks that feed the input
\* ports of inner block i, and the last inner block feeds the Outport.  A
\* line that feeds several ports has them as its branches
lift_system(ins, types, srcs, sids, inputs, spaced) ==
    LET k == Len(types)
        sid(p) == to_string(sids[p])
        blocks ==
            [p \in 1..(ins + k + 1) |->
                IF p <= ins THEN Block("Inport", inport_name(p, ins, spaced), sid(p))
                ELSE IF p = ins + k + 1 THEN Block("Outport", "y", sid(p))
                ELSE IF types[p - ins] = "Sum" /\ inputs # ""
                THEN [Block("Sum", "B" \o to_string(p), sid(p)) EXCEPT
                         !.parameters = [n \in {"Inputs"} |-> inputs]]
                ELSE Block(types[p - ins], "B" \o to_string(p), sid(p))]
        \* the input ports fed by block p, in the order of the blocks
        RECURSIVE fed(_, _)
        fed(p, i) ==
            IF i > k THEN (IF p = ins + k THEN << sid(ins + k + 1) \o "#in:1" >> ELSE << >>)
            ELSE [j \in 1..Cardinality({ n \in 1..Len(srcs[i]) : srcs[i][n] = p }) |->
                     sid(ins + i) \o "#in:"
                       \o to_string(CHOOSE n \in 1..Len(srcs[i]) :
                              /\ srcs[i][n] = p
                              /\ Cardinality({ m \in 1..n : srcs[i][m] = p }) = j)]
                   \o fed(p, i + 1)
        line(p) == [source |-> sid(p) \o "#out:1", destination |-> Head(fed(p, 1)),
                    branches |-> Tail(fed(p, 1))]
    IN  [ blocks |-> blocks,
          connections |-> [p \in 1..(ins + k) |-> line(p)] ]

\* the ways to feed inner block i of the given type from the Inports and
\* the inner blocks before it
lift_feeds(ins, types) ==
    { f \in [1..Len(types) -> UNION { [1..n -> 1..(ins + Len(types))] : n \in 1..2 }] :
        \A i \in 1..Len(types) :
            /\ Len(f[i]) = IF types[i] = "Sum" THEN 2 ELSE 1
            /\ \A n \in 1..Len(f[i]) : f[i][n] < ins + i }

\* the sids of n blocks: rising, or falling along the inner blocks
lift_sids(ins, k) ==
    { [p \in 1..(ins + k + 1) |-> p],
      [p \in 1..(ins + k + 1) |-> IF p > ins /\ p <= ins + k THEN 2 * ins + k + 1 - p ELSE p] }

\* every output port feeds a port: each Inport and each inner block but
\* the last is the source of an input
all_connected(ins, types, f) ==
    \A p \in 1..(ins + Len(types) - 1) :
        \E i \in 1..Len(types) : \E n \in 1..Len(f[i]) : f[i][n] = p

LiftSystems ==
    UNION { UNION { { lift_system(ins, types, f, sids, inputs, spaced) :
                        f \in { g \in lift_feeds(ins, types) : all_connected(ins, types, g) },
                        sids \in lift_sids(ins, Len(types)),
                        inputs \in SumInputs,
                        spaced \in BOOLEAN } :
                    types \in UNION { [1..k -> {"Gain", "Sum"}] : k \in 1..MaxLiftBlocks } } :
            ins \in 1..MaxInports }

InitLift ==
    /\ OpcIdle
    /\ LibIdle
    /\ top = "system_2"
    /\ \E sys \in LiftSystems : systems = [id \in {"system_2"} |-> sys]
    /\ gen_pc = "start"
    /\ generated = NoParts
    /\ lifted = NoLift
    /\ prev_sorted_sids = << >>
    /\ call_stack = << >>
    /\ inline_code = << >>
    /\ element = NoElement
    /\ beyond = 0

SpecLift == InitLift /\ [][NextEmit]_vars

\* the blocks of a system as pairs of type and name
typed_names(blocks) == { << blocks[i].type, blocks[i].name >> : i \in 1..Len(blocks) }

\* the wiring of a system of the model: for each line and each port it
\* feeds, the names and ports of the two blocks
wiring_of(sys) ==
    LET name(s) == (CHOOSE b \in { sys.blocks[i] : i \in 1..Len(sys.blocks) } :
                       b.sid = s).name
        wire(conn, j) ==
            << name(endpoint_parse(conn.source).block_sid),
               endpoint_parse(conn.source).port_index,
               name(endpoint_parse(check_dsts(conn)[j]).block_sid),
               endpoint_parse(check_dsts(conn)[j]).port_index >>
    IN  UNION { { wire(sys.connections[n], j) :
                    j \in 1..Len(check_dsts(sys.connections[n])) } :
                n \in 1..Len(sys.connections) }

\* the wiring of the lifted system, the same way
lifted_wiring ==
    LET name(s) == IF \E i \in 1..Len(lifted.blocks) : lifted.blocks[i].sid = s
                   THEN lifted.blocks[CHOOSE i \in 1..Len(lifted.blocks) :
                                         lifted.blocks[i].sid = s].name
                   ELSE ""
    IN  { << name(lifted.connections[n].src_sid), lifted.connections[n].src_port,
             name(lifted.connections[n].dst_sid), lifted.connections[n].dst_port >> :
          n \in 1..Len(lifted.connections) }

\* the lifted system has exactly the blocks of the exported system, with
\* their types and names and none twice, and exactly its wiring
restored ==
    /\ typed_names(lifted.blocks) = typed_names(systems[top].blocks)
    /\ Len(lifted.blocks) = Len(systems[top].blocks)
    /\ lifted_wiring = wiring_of(systems[top])
    /\ Len(lifted.connections) = Cardinality(wiring_of(systems[top]))

\* the names of the blocks of the exported system are identifiers:
\* sanitize_name leaves them as they are
names_kept ==
    \A i \in 1..Len(systems[top].blocks) :
        /\ systems[top].blocks[i].name # ""
        /\ sanitize_name(systems[top].blocks[i].name) = systems[top].blocks[i].name

SwitchCriteria == { "", "u2 >= Threshold", "u2 > Threshold", "u2 ~= 0" }

SwitchThresholds == { "", "0.5", "2", "K" }

\* the system of three Inports u, v and v3, a Switch fed by them in the
\* order feed, and an Outport
switch_system(criteria, threshold, feed) ==
    LET sys == lift_system(3, << "Switch" >>, << feed >>, [p \in 1..5 |-> p], "", FALSE)
        given == { k \in {"Criteria", "Threshold"} :
                     IF k = "Criteria" THEN criteria # "" ELSE threshold # "" }
    IN  [sys EXCEPT !.blocks[4].parameters =
                        [k \in given |-> IF k = "Criteria" THEN criteria ELSE threshold]]

SwitchSystems ==
    { switch_system(criteria, threshold, feed) :
        criteria \in SwitchCriteria, threshold \in SwitchThresholds,
        feed \in { f \in [1..3 -> 1..3] : \A p \in 1..3 : \E n \in 1..3 : f[n] = p } }

InitSwitch ==
    /\ OpcIdle
    /\ LibIdle
    /\ top = "system_2"
    /\ \E sys \in SwitchSystems : systems = [id \in {"system_2"} |-> sys]
    /\ gen_pc = "start"
    /\ generated = NoParts
    /\ lifted = NoLift
    /\ prev_sorted_sids = << >>
    /\ call_stack = << >>
    /\ inline_code = << >>
    /\ element = NoElement
    /\ beyond = 0

SpecSwitch == InitSwitch /\ [][NextEmit]_vars

\* the Switch block of the exported system
switch_block ==
    CHOOSE b \in { systems[top].blocks[i] : i \in 1..Len(systems[top].blocks) } :
        b.type = "Switch"

\* the comparison a Criteria parameter asks for
comparison_of(criteria) ==
    IF Find(criteria, ">=", 1) # 0 THEN ">="
    ELSE IF Find(criteria, ">", 1) # 0 THEN ">"
    ELSE IF Find(criteria, "~=", 1) # 0 THEN "~="
    ELSE ""

\* the lifted system has one Switch block; its Criteria has the comparison
\* of the exported block (>= when that has none), its Threshold is the one
\* of the exported block when that has one, and its three input ports are
\* fed by the blocks that feed the exported block: port 1 the value taken
\* when the condition holds, port 2 the condition, port 3 the other value
switch_restored ==
    /\ Cardinality({ i \in 1..Len(lifted.blocks) : lifted.blocks[i].type = "Switch" }) = 1
    /\ \A i \in 1..Len(lifted.blocks) :
          lifted.blocks[i].type = "Switch" =>
              /\ "Criteria" \in DOMAIN lifted.blocks[i].parameters
              /\ comparison_of(lifted.blocks[i].parameters["Criteria"])
                    = comparison_of(param_or(switch_block, "Criteria", "u2 >= Threshold"))
              /\ "Threshold" \in DOMAIN lifted.blocks[i].parameters
              /\ "Threshold" \in DOMAIN switch_block.parameters
                    => lifted.blocks[i].parameters["Threshold"]
                         = switch_block.parameters["Threshold"]
    /\ { w \in lifted_wiring : w[3] = switch_block.name }
          = { w \in wiring_of(systems[top]) : w[3] = switch_block.name }

\* C23: lifting the statement exported for a Switch block restores the
\* block: the Criteria (>=, > or ~=) and the Threshold are recorded, and
\* its three inputs are connected, port 1 to the value taken when the
\* condition holds, port 2 to the condition and port 3 to the other value
C23_SwitchIsRestored == gen_pc = "lifted" => switch_restored

(***************************************************************************)
(* The lifter on an element of an .oc file: its update body is a sequence  *)
(* of statements, among them calls of the components of the file           *)
(***************************************************************************)

\* the largest number of statements of an update body
MaxStatements == 3

\* the body of a component: a Gain between its input and its outputs
filter_body(outputs) ==
    << "        // Gain: g", "        auto g = in.a * 2.0f;", "", "        // Outputs" >>
      \o [i \in 1..Len(outputs) |-> "        out." \o outputs[i] \o " = g;"]

\* the lines of a call of component type as instance name, fed by value,
\* followed by the extraction of the given outputs
call_lines(type, name, value, outputs) ==
    << "        // Component call: " \o name,
       "        " \o type \o "_input " \o name \o "_in{.a = " \o value \o "};",
       "        " \o type \o "_output " \o name \o "_out{};",
       "        " \o type \o "_update(" \o name \o "_in, " \o type \o "_config{}, state."
          \o name \o ", " \o name \o "_out);" >>
      \o [i \in 1..Len(outputs) |->
             "        auto " \o name \o "_out" \o to_string(i) \o " = " \o name \o "_out."
               \o outputs[i] \o ";"]

\* the components of the file: Filt and Pair are a Gain with one and two
\* outputs, Loop calls itself, Ping and Pong call each other
Components ==
    << [name |-> "Filt", inputs |-> << "a" >>, outputs |-> << "o" >>,
        body |-> filter_body(<< "o" >>)],
       [name |-> "Pair", inputs |-> << "a" >>, outputs |-> << "o", "p" >>,
        body |-> filter_body(<< "o", "p" >>)],
       [name |-> "Loop", inputs |-> << "a" >>, outputs |-> << "o" >>,
        body |-> call_lines("Loop", "L", "in.a", << "o" >>)
                   \o << "", "        // Outputs", "        out.o = L_out1;" >>],
       [name |-> "Ping", inputs |-> << "a" >>, outputs |-> << "o" >>,
        body |-> call_lines("Pong", "Q", "in.a", << "o" >>)
                   \o << "", "        // Outputs", "        out.o = Q_out1;" >>],
       [name |-> "Pong", inputs |-> << "a" >>, outputs |-> << "o" >>,
        body |-> call_lines("Ping", "P", "in.a", << "o" >>)
                   \o << "", "        // Outputs", "        out.o = P_out1;" >>] >>

\* a call written in an update body: the component, the instance and the
\* variables its outputs are extracted to
Call(type, name, k) ==
    [type |-> type, name |-> name,
     out_vars |-> [i \in 1..k |-> name \o "_out" \o to_string(i)]]

\* the statements an update body is made of, with the call each holds
Statements ==
    { [lines |-> << "        // Gain: G", "        auto G = in.u * 2.0f;" >>,
       calls |-> << >>],
      [lines |-> << "        // Sum: S", "        auto S = F1_out1 + state.D_state;" >>,
       calls |-> << >>],
      [lines |-> << "        // Gain: H", "        auto H = Pair_out2 * cfg.K;" >>,
       calls |-> << >>],
      [lines |-> << "        // UnitDelay: D",
                    "        state.D_state = F1_out1;  // update for next step" >>,
       calls |-> << >>],
      [lines |-> call_lines("Filt", "F1", "in.u", << "o" >>),
       calls |-> << Call("Filt", "F1", 1) >>],
      [lines |-> call_lines("Pair", "Pair", "in.u", << "o", "p" >>),
       calls |-> << Call("Pair", "Pair", 2) >>],
      [lines |-> call_lines("Loop", "L1", "in.u", << "o" >>),
       calls |-> << Call("Loop", "L1", 1) >>],
      [lines |-> call_lines("Ping", "P1", "in.u", << "o" >>),
       calls |-> << Call("Ping", "P1", 1) >>] }

\* what the Outport of the element is assigned
OutputValues == { "G", "S", "H", "F1_out1", "Pair_out1" }

RECURSIVE all_lines(_)
all_lines(statements) ==
    IF statements = << >> THEN << >>
    ELSE Head(statements).lines \o all_lines(Tail(statements))

RECURSIVE all_calls(_)
all_calls(statements) ==
    IF statements = << >> THEN << >>
    ELSE Head(statements).calls \o all_calls(Tail(statements))

Elements ==
    { [ inputs |-> << "u" >>, outputs |-> << "y" >>,
        body |-> all_lines(c[1])
                   \o << "", "        // Outputs", "        out.y = " \o c[2] \o ";" >>,
        components |-> Components,
        calls |-> all_calls(c[1]) ] :
      c \in (UNION { [1..k -> Statements] : k \in 1..MaxStatements }) \X OutputValues }

\* block_diagram_generator::generate on the element; a recursion that no
\* call returns from ends the process
LiftElement ==
    /\ gen_pc = "parsed"
    /\ lifted' = generate(element.body, element.inputs, element.outputs,
                          element.components, 1)
    /\ gen_pc' = IF lifted'.fault = "stack" THEN "overflow" ELSE "lifted"
    /\ UNCHANGED << systems, top, element, beyond, generated, prev_sorted_sids, call_stack,
                    inline_code >>
    /\ UNCHANGED << opc_vars, lib_vars >>

InitLifter ==
    /\ OpcIdle
    /\ LibIdle
    /\ systems = EmptyMap
    /\ top = ""
    /\ element \in Elements
    /\ beyond = 0
    /\ gen_pc = "parsed"
    /\ generated = NoParts
    /\ lifted = NoLift
    /\ prev_sorted_sids = << >>
    /\ call_stack = << >>
    /\ inline_code = << >>

SpecLifter == InitLifter /\ [][LiftElement]_vars

\* the calls of the update body whose component the file defines
defined_calls ==
    { n \in 1..Len(element.calls) :
        \E c \in 1..Len(element.components) :
            element.components[c].name = element.calls[n].type }

\* the ids of the child systems made for the element
child_ids == { lifted.children[i].id : i \in 1..Len(lifted.children) }

\* C21: after the lifter has processed a component call followed by its
\* output extractions, the system has a SubSystem block named after the
\* instance that refers to a child system made for the component, and the
\* variable of the i-th extraction is output port i of that block
C21_CallBecomesSubSystem ==
    gen_pc = "lifted" =>
        \A n \in defined_calls :
            \E b \in 1..Len(lifted.blocks) :
                /\ lifted.blocks[b].type = "SubSystem"
                /\ lifted.blocks[b].name = element.calls[n].name
                /\ \E id \in child_ids :
                       lifted.blocks[b].subsystem_ref = "system_" \o to_string(id)
                /\ \A i \in 1..Len(element.calls[n].out_vars) :
                       /\ element.calls[n].out_vars[i] \in DOMAIN lifted.var_map
                       /\ lifted.var_map[element.calls[n].out_vars[i]]
                            = << lifted.blocks[b].sid, i >>

\* C26: the lifter returns for every element, also when a component of the
\* file calls itself or two components call each other: the recursion
\* between parse_update_body and generate_component is bounded and never
\* uses up the stack
C26_LifterTerminates == gen_pc # "overflow"

\* the connections that leave the given source port, in lifting order
consumers_of(connections, src) ==
    LET from_src == SelectSeq(connections, LAMBDA c : << c.src_sid, c.src_port >> = src)
    IN  [ i \in 1..Len(from_src) |-> << from_src[i].dst_sid, from_src[i].dst_port >> ]

\* the source ports of the connections
sources_of(connections) ==
    { << connections[c].src_sid, connections[c].src_port >> : c \in 1..Len(connections) }

\* the system XML has, for every source port, one Line; it holds the
\* consumers as Branches in lifting order if there are two or more, and
\* the one consumer as its destination, without a Branch, otherwise
one_line_per_source(connections, system_xml) ==
    \A src \in sources_of(connections) :
        LET of_src == { l \in 1..Len(system_xml) : system_xml[l].src = src }
            consumers == consumers_of(connections, src)
        IN  /\ Cardinality(of_src) = 1
            /\ \A l \in of_src :
                   IF Len(consumers) >= 2
                   THEN /\ system_xml[l].dst = << >>
                        /\ [ i \in 1..Len(system_xml[l].branches) |->
                               system_xml[l].branches[i].dst ] = consumers
                   ELSE /\ system_xml[l].dst = consumers
                        /\ system_xml[l].branches = << >>

\* C22: when k >= 2 statements of the body read the same source port, the
\* emitted system XML has exactly one Line for that port, with k Branches
\* in lifting order; a port with exactly one consumer gets a Line with a
\* direct destination and no Branch. This holds for the system of the
\* element and for every child system
C22_FanOutIsOneLine ==
    gen_pc = "lifted" =>
        /\ one_line_per_source(lifted.connections, lifted.system_xml)
        /\ \A c \in 1..Len(lifted.children) :
               one_line_per_source(lifted.children[c].connections,
                                   lifted.children[c].system_xml)

\* an element was lifted in which one port has three consumers and another
\* port has one
C22_Witness ==
    /\ gen_pc = "lifted"
    /\ element # NoElement
    /\ \E src \in sources_of(lifted.connections) :
           Len(consumers_of(lifted.connections, src)) = 3
    /\ \E src \in sources_of(lifted.connections) :
           Len(consumers_of(lifted.connections, src)) = 1

\* every connection starts and ends at a block of the system
connections_name_blocks(blocks, connections) ==
    \A c \in 1..Len(connections) :
        /\ \E b \in 1..Len(blocks) : blocks[b].sid = connections[c].src_sid
        /\ \E b \in 1..Len(blocks) : blocks[b].sid = connections[c].dst_sid

\* C29: after the lifter has processed the lines of an update body, in
\* whatever order its tags, statements, state updates and component calls
\* stand, every connection of the system has a source id and a destination
\* id of a block of the system: none refers to an id that was reserved and
\* never given a block
C29_ConnectionsNameBlocks ==
    gen_pc = "lifted" =>
        /\ connections_name_blocks(lifted.blocks, lifted.connections)
        /\ \A c \in 1..Len(lifted.children) :
               connections_name_blocks(lifted.children[c].blocks,
                                       lifted.children[c].connections)

(***************************************************************************)
(* Library functions called on their own: endpoint::parse on a Src or Dst  *)
(* string, endpoint::parse on the string written for an endpoint, and      *)
(* sanitize_name on a block name and on its own result                     *)
(***************************************************************************)

(***************************************************************************)
(* The recursion of the generator into the systems that SubSystem blocks    *)
(* refer to, one call and one return at a time.  call_stack holds a frame  *)
(* for every generate_system_code call that has not returned: the system,  *)
(* its prefix and depth, signal_map as the call sees it, and how far the   *)
(* loop over sorted_sids has come; blk is the SubSystem block on whose     *)
(* behalf generate_subsystem_inline made the call.  inline_code is the one *)
(* stream all the calls write to.                                          *)
(***************************************************************************)

\* the frame of a generate_system_code call that has not started
called(id, prefix, depth, signal_map, blk) ==
    [ id |-> id, prefix |-> prefix, depth |-> depth, signal_map |-> signal_map,
      blk |-> blk, entered |-> FALSE, expanded |-> FALSE,
      block_inputs |-> EmptyMap, sorted_sids |-> << >>, rest |-> << >>,
      fault |-> "none" ]

top_frame == call_stack[Len(call_stack)]

\* the stack with its top frame replaced
with_top(frame) == [call_stack EXCEPT ![Len(call_stack)] = frame]

\* generate_parts calls generate_system_code for the exported system
CallSystemCode ==
    /\ gen_pc = "call"
    /\ call_stack' = << called(top, "", 0, inport_signals(inports(systems[top])),
                              Block("", "", "")) >>
    /\ gen_pc' = "inlining"
    /\ UNCHANGED << systems, top, element, beyond, generated, prev_sorted_sids, lifted, inline_code >>
    /\ UNCHANGED << opc_vars, lib_vars >>

\* generate_system_code up to its loop over sorted_sids: past the depth
\* bound it writes the comment and returns
EnterSystemCode ==
    /\ gen_pc = "inlining"
    /\ ~top_frame.entered
    /\ LET f == top_frame
           sys == systems[f.id]
           sm == assign_signals(sys, f.prefix, f.signal_map, Len(sys.blocks))
           st == build_dependencies(sys, sm, Len(sys.connections))
           sorted == schedule(sys, st.dependencies, in_degree_of(sys, st.dependencies))
       IN  IF past_inline_depth(f.depth)
           THEN /\ inline_code' = inline_code \o << "// Max inline depth reached" >>
                /\ call_stack' = with_top([f EXCEPT !.entered = TRUE])
           ELSE /\ inline_code' = inline_code
                /\ call_stack' =
                      with_top(IF st.fault # "none"
                               THEN [f EXCEPT !.entered = TRUE, !.fault = st.fault]
                               ELSE [f EXCEPT !.entered = TRUE, !.expanded = TRUE,
                                              !.signal_map = sm,
                                              !.block_inputs = st.block_inputs,
                                              !.sorted_sids = sorted, !.rest = sorted])
    /\ UNCHANGED << systems, top, element, beyond, gen_pc, generated, prev_sorted_sids, lifted >>
    /\ UNCHANGED << opc_vars, lib_vars >>

\* is blk a SubSystem whose system generate_block_code inlines
inlined(blk) ==
    blk.type = "SubSystem" /\ blk.subsystem_ref # "" /\ blk.subsystem_ref \in DOMAIN systems

\* generate_system_code, one turn of the loop over sorted_sids: an Inport
\* or Outport is skipped, a SubSystem that resolves is entered through
\* generate_subsystem_inline, any other block writes its code
EmitBlock ==
    /\ gen_pc = "inlining"
    /\ top_frame.entered
    /\ top_frame.fault = "none"
    /\ top_frame.rest # << >>
    /\ LET f == top_frame
           sys == systems[f.id]
           sid == Head(f.rest)
           at == find_block_by_sid(sys, sid)
           skipped == \A i \in 1..Len(sys.blocks) :
                         i = at => is_inport(sys.blocks[i]) \/ is_outport(sys.blocks[i])
           blk == sys.blocks[at]
           sm == IF out_key(sid, 1) \in DOMAIN f.signal_map THEN f.signal_map
                 ELSE MapPut(f.signal_map, out_key(sid, 1), "")
       IN  IF skipped
           THEN /\ call_stack' = with_top([f EXCEPT !.rest = Tail(f.rest)])
                /\ inline_code' = inline_code
           ELSE IF inlined(blk)
           THEN /\ call_stack' =
                      Append(with_top([f EXCEPT !.rest = Tail(f.rest), !.signal_map = sm]),
                             called(blk.subsystem_ref, var_prefix_of(f.prefix, blk),
                                    f.depth + 1,
                                    Override(sm, subsystem_inputs(systems[blk.subsystem_ref],
                                                                  f.block_inputs[blk.sid])),
                                    blk))
                /\ inline_code' = inline_code \o << "// --- Subsystem: " \o blk.name \o " ---" >>
           ELSE \E r \in { emit_block(systems, sys, f.prefix, f.block_inputs, blk, sm,
                                       inline_code, f.depth) } :
                /\ call_stack' = with_top([f EXCEPT !.rest = Tail(f.rest),
                                                    !.signal_map = r.signal_map,
                                                    !.fault = r.fault])
                /\ inline_code' = r.code
    /\ UNCHANGED << systems, top, element, beyond, gen_pc, generated, prev_sorted_sids, lifted >>
    /\ UNCHANGED << opc_vars, lib_vars >>

\* what a generate_system_code call hands back when it returns
returned(f) ==
    system_result([signal_map |-> f.signal_map, code |-> inline_code, fault |-> f.fault],
                  f.sorted_sids, f.expanded)

\* an inner generate_system_code call returns to generate_subsystem_inline,
\* which maps the outports and returns to the loop of the calling system
ReturnToInline ==
    /\ gen_pc = "inlining"
    /\ Len(call_stack) > 1
    /\ top_frame.entered
    /\ top_frame.rest = << >> \/ top_frame.fault # "none"
    /\ LET f == top_frame
           parent == call_stack[Len(call_stack) - 1]
       IN  \E r \in { inline_outports(systems[f.id], f.blk, f.prefix, parent.signal_map,
                                       returned(f)) } :
           /\ call_stack' = [SubSeq(call_stack, 1, Len(call_stack) - 1)
                               EXCEPT ![Len(call_stack) - 1] =
                                   [parent EXCEPT !.signal_map = r.signal_map,
                                                  !.fault = r.fault]]
           /\ inline_code' = r.code
    /\ UNCHANGED << systems, top, element, beyond, gen_pc, generated, prev_sorted_sids, lifted >>
    /\ UNCHANGED << opc_vars, lib_vars >>

\* the outermost generate_system_code call returns to generate_parts
ReturnToParts ==
    /\ gen_pc = "inlining"
    /\ Len(call_stack) = 1
    /\ top_frame.entered
    /\ top_frame.rest = << >> \/ top_frame.fault # "none"
    /\ generated' = parts_of(systems, systems[top], "", returned(top_frame))
    /\ gen_pc' = IF generated'.fault # "none" THEN "terminated" ELSE "inlined"
    /\ call_stack' = << >>
    /\ UNCHANGED << systems, top, element, beyond, prev_sorted_sids, lifted, inline_code >>
    /\ UNCHANGED << opc_vars, lib_vars >>

\* the most inner blocks of a system of a model with SubSystem references
MaxInner == 2

InlineTypes == { "Gain", "UnitDelay", "SubSystem" }

\* the chain Inport -> types[1] -> ... -> Outport whose SubSystem blocks
\* refer to the system ref
inline_system(types, ref) ==
    LET sys == chain_system(types, [i \in 1..Len(types) |-> to_string(i + 1)], "last")
    IN  [sys EXCEPT !.blocks =
            [i \in 1..Len(sys.blocks) |->
                IF sys.blocks[i].type = "SubSystem"
                THEN [sys.blocks[i] EXCEPT !.subsystem_ref = ref]
                ELSE sys.blocks[i]]]

\* chains with at most one SubSystem block, which refers to the system
\* itself, to the other system of the model or to no system of the model
InlineSystems ==
    { inline_system(types, ref) :
        types \in { t \in UNION { [1..k -> InlineTypes] : k \in 1..MaxInner } :
                      Cardinality({ i \in DOMAIN t : t[i] = "SubSystem" }) <= 1 },
        ref \in { "system_2", "system_3", "system_9" } }

\* the systems the exported one may refer to: one that refers back to it,
\* one that refers to itself, one without a SubSystem
InnerSystems ==
    { inline_system(<< "UnitDelay", "SubSystem" >>, "system_2"),
      inline_system(<< "SubSystem", "Gain" >>, "system_3"),
      ChildSystem }

InitInline ==
    /\ OpcIdle
    /\ LibIdle
    /\ top = "system_2"
    /\ \E sys \in InlineSystems, inner \in InnerSystems :
          systems = [id \in {"system_2", "system_3"} |->
                        IF id = "system_2" THEN sys ELSE inner]
    /\ gen_pc = "call"
    /\ generated = NoParts
    /\ lifted = NoLift
    /\ prev_sorted_sids = << >>
    /\ call_stack = << >>
    /\ inline_code = << >>
    /\ element = NoElement
    /\ beyond = 0

NextInline ==
    CallSystemCode \/ EnterSystemCode \/ EmitBlock \/ ReturnToInline \/ ReturnToParts

\* a call or a return can be taken: the guards of the five steps cover
\* every state in which the generator has been called and has not returned
running == gen_pc \in {"call", "inlining"}

\* the generator runs on one thread that nothing suspends: a step that can
\* be taken is taken.  This is weak fairness of NextInline, written with
\* running for ENABLED <<NextInline>>_vars
SpecInline ==
    InitInline /\ [][NextInline]_vars /\ ([]<>(~running) \/ []<><<NextInline>>_vars)

\* the systems that SubSystem blocks of system id refer to
refs_of(id) ==
    { systems[id].blocks[i].subsystem_ref :
        i \in { j \in 1..Len(systems[id].blocks) : inlined(systems[id].blocks[j]) } }

\* the systems reached from the systems of S through references
RECURSIVE reached_from(_)
reached_from(S) ==
    LET more == S \cup UNION { refs_of(id) : id \in S }
    IN  IF more = S THEN S ELSE reached_from(more)

\* the exported system reaches a system that reaches itself
refers_in_cycle ==
    \E id \in reached_from({top}) : id \in reached_from(refs_of(id))

\* the number of '_' in s
underscores(s) == Cardinality({ i \in 1..Len(s) : Ch(s, i) = "_" })

\* the generate_system_code calls that are open respect the bound: no more
\* than 12 of them, each one level below its caller, none past depth 10
\* expanded
calls_bounded ==
    /\ Len(call_stack) <= 12
    /\ \A i \in 1..Len(call_stack) :
          /\ call_stack[i].depth = i - 1
          /\ call_stack[i].expanded => call_stack[i].depth <= 10

\* a model that went past the bound ended with the comment in its code
\* and without a state variable from a depth greater than 10: the name of
\* a state variable of depth d is made of d + 1 block names and "state",
\* joined by '_'
bound_reported ==
    gen_pc = "inlined" /\ refers_in_cycle =>
        /\ "// Max inline depth reached" \in
               { generated.operation_code[j] : j \in 1..Len(generated.operation_code) }
        /\ \A k \in 1..Len(generated.state_vars) :
               underscores(generated.state_vars[k][1]) <= 11

\* C14: code generation ends on every model, a model whose SubSystem
\* references form a cycle included: the recursion is bounded, no system
\* is expanded at a depth greater than 10, and a model that goes past the
\* bound ends without a fault, with the comment "Max inline depth reached"
\* in its code
C14_InliningIsBounded ==
    /\ [](calls_bounded /\ bound_reported /\ gen_pc # "terminated")
    /\ <>(gen_pc = "inlined")

\* a model with a cycle has been generated: the bound was passed, and a
\* UnitDelay of depth 10 has its state variable
C14_Witness ==
    /\ gen_pc = "inlined"
    /\ refers_in_cycle
    /\ "// Max inline depth reached" \in
           { generated.operation_code[j] : j \in 1..Len(generated.operation_code) }
    /\ \E k \in 1..Len(generated.state_vars) :
           underscores(generated.state_vars[k][1]) = 11

\* the parser reaches the update section of a source and parse_update
\* stores its raw code
ParseUpdate ==
    /\ lib_pc = "start"
    /\ lib_arg.kind = "update"
    /\ lib_res' = [text |-> parse_update(tokenize(lib_arg.text)).raw_code, e |-> NoEndpoint]
    /\ lib_pc' = "updated"
    /\ UNCHANGED lib_arg
    /\ UNCHANGED << opc_vars, gen_vars >>

\* lines of an update body as the forward path writes them
BodyLines ==
    { "        // Gain: B2", "        auto B2 = in.u * 2;", "        out.y = B2;",
      "        state.x = 1.5f;", "        auto k = x;  // gain", "" }

\* the most lines of an update body
MaxBodyLines == 2

RECURSIVE Bodies(_)
Bodies(n) ==
    IF n = 0 THEN { "" }
    ELSE Bodies(n - 1) \cup { b \o l \o "\n" : b \in Bodies(n - 1), l \in BodyLines }

\* update sections: the keyword line, the body, the closing brace
UpdateSources == { "    update {\n" \o b \o "    }\n" : b \in Bodies(MaxBodyLines) }

\* the string written for an endpoint: <sid>#<kind>:<index>
endpoint_format(e) == e.block_sid \o "#" \o e.port_type \o ":" \o to_string(e.port_index)

\* endpoint::parse called on a Src or Dst string; std::stoi may throw
ParseEndpoint ==
    /\ lib_pc = "start"
    /\ lib_arg.kind = "endpoint"
    /\ lib_res' = [text |-> "", e |-> endpoint_parse(lib_arg.text)]
    /\ lib_pc' = IF lib_res'.e.throws THEN "thrown" ELSE "parsed"
    /\ UNCHANGED lib_arg
    /\ UNCHANGED << opc_vars, gen_vars >>

\* an endpoint is written as a string and the string is parsed
FormatAndParse ==
    /\ lib_pc = "start"
    /\ lib_arg.kind = "format"
    /\ lib_res' = [text |-> endpoint_format(lib_arg.e),
                   e |-> endpoint_parse(endpoint_format(lib_arg.e))]
    /\ lib_pc' = IF lib_res'.e.throws THEN "thrown" ELSE "reparsed"
    /\ UNCHANGED lib_arg
    /\ UNCHANGED << opc_vars, gen_vars >>

\* sanitize_name called on a name
Sanitize ==
    /\ lib_pc = "start"
    /\ lib_arg.kind = "name"
    /\ lib_res' = [text |-> sanitize_name(lib_arg.text), e |-> NoEndpoint]
    /\ lib_pc' = "sanitized"
    /\ UNCHANGED lib_arg
    /\ UNCHANGED << opc_vars, gen_vars >>

\* sanitize_name called on its own result
SanitizeAgain ==
    /\ lib_pc = "sanitized"
    /\ lib_arg' = [lib_arg EXCEPT !.text = lib_res.text]
    /\ lib_res' = [text |-> sanitize_name(lib_res.text), e |-> NoEndpoint]
    /\ lib_pc' = "resanitized"
    /\ UNCHANGED << opc_vars, gen_vars >>

\* Src and Dst strings, well-formed and not
EndpointTexts ==
    { "2#out:1", "12#in:3", "2#out:", "2#out:x", "2#out:1x", "2#out:0",
      "2#out:-1", "2out:1", "2#out1", "2:out#1", "", "#:", "2#out: 1" }

\* the largest port index of an endpoint that is written
MaxIndex == 12

SidChoices == { "1", "23", "7:2", "" }

Endpoints ==
    { [ok |-> TRUE, throws |-> FALSE, block_sid |-> sid, port_type |-> kind,
       port_index |-> idx] :
        sid \in SidChoices, kind \in {"in", "out"}, idx \in 1..MaxIndex }

\* the longest block name
MaxName == 3

NameChars == { "a", "Z", "1", "_", " ", "-", "." }

RECURSIVE Names(_)
Names(n) ==
    IF n = 0 THEN { "" }
    ELSE Names(n - 1) \cup { s \o c : s \in Names(n - 1), c \in NameChars }

InitLib ==
    /\ OpcIdle
    /\ GenIdle
    /\ lib_pc = "start"
    /\ lib_arg \in { [kind |-> "endpoint", text |-> t, e |-> NoEndpoint] : t \in EndpointTexts }
                     \cup { [kind |-> "format", text |-> "", e |-> e] : e \in Endpoints }
                     \cup { [kind |-> "name", text |-> n, e |-> NoEndpoint] : n \in Names(MaxName) }
                     \cup { [kind |-> "update", text |-> u, e |-> NoEndpoint] : u \in UpdateSources }
    /\ lib_res = NoRes

NextLib == ParseEndpoint \/ FormatAndParse \/ Sanitize \/ SanitizeAgain \/ ParseUpdate

SpecLib == InitLib /\ [][NextLib]_vars

\* the lines of s, split at its line feeds
source_lines(s) ==
    LET feeds == { i \in 1..Len(s) : Ch(s, i) = "\n" }
        cut(k) == IF k = 0 THEN 0
                  ELSE IF k > Cardinality(feeds) THEN Len(s) + 1
                  ELSE CHOOSE i \in feeds : Cardinality({ j \in feeds : j <= i }) = k
    IN  [k \in 1..(Cardinality(feeds) + 1) |-> SubSeq(s, cut(k - 1) + 1, cut(k) - 1)]

\* the lines between the line of the keyword and the line of the brace
\* that closes the section
update_body_lines(s) ==
    { source_lines(s)[k] : k \in 2..(Len(source_lines(s)) - 2) }

\* C13: the raw code that parse_update stores contains every line of the
\* source between the braces of the update section, the comment lines
\* "// <Type>: <Name>" included
C13_RawCodeKeepsEveryLine ==
    lib_pc = "updated" =>
        \A l \in update_body_lines(lib_arg.text) :
            trim(l) # "" => Has(lib_res.text, trim(l))

(***************************************************************************)
(* Endpoints                                                               *)
(***************************************************************************)

\* the text between two positions is a positive integer: one or more
\* digits, not all of them 0
positive_integer(t) ==
    /\ t # ""
    /\ \A i \in 1..Len(t) : isdigit(Ch(t, i))
    /\ \E i \in 1..Len(t) : Ch(t, i) # "0"

\* a Src or Dst string of the form <id>#<kind>:<idx> with idx a positive
\* integer
matches_endpoint(t) ==
    \E h \in 1..Len(t) :
        /\ Ch(t, h) = "#"
        /\ \E c \in (h + 1)..Len(t) :
              /\ Ch(t, c) = ":"
              /\ positive_integer(SubSeq(t, c + 1, Len(t)))

\* C17: endpoint::parse called on a string without '#', without ':' or
\* with an index that is not a positive integer returns an error: it does
\* not throw and it does not return an endpoint
C17_MalformedEndpointIsReturnedError ==
    (lib_arg.kind = "endpoint" /\ lib_pc # "start" /\ ~matches_endpoint(lib_arg.text))
        => (lib_pc = "parsed" /\ ~lib_res.e.ok)

\* C18: parsing the string written for a valid endpoint returns that
\* endpoint: the same sid, the same kind and the same index
C18_EndpointRoundTrip ==
    (lib_arg.kind = "format" /\ lib_pc # "start")
        => (lib_pc = "reparsed" /\ lib_res.e = lib_arg.e)

\* an endpoint with an index of two digits and a sid with a colon in it
\* was written and parsed
C18_Witness ==
    /\ lib_pc = "reparsed"
    /\ lib_res.text = "7:2#in:12"
    /\ lib_res.e.port_index = 12

(***************************************************************************)
(* Names                                                                   *)
(***************************************************************************)

IdentChars == "ABCDEFGHIJKLMNOPQRSTUVWXYZabcdefghijklmnopqrstuvwxyz0123456789_"

\* C19: sanitize_name(n) has only characters of [A-Za-z0-9_] and no digit
\* at its start, and sanitize_name leaves it as it is
C19_SanitizeClosure ==
    /\ lib_pc = "sanitized" =>
          /\ \A i \in 1..Len(lib_res.text) : Find(IdentChars, Ch(lib_res.text, i), 1) # 0
          /\ lib_res.text # "" => ~isdigit(Ch(lib_res.text, 1))
    /\ lib_pc = "resanitized" => lib_res.text = lib_arg.text

\* a name with a digit at its start and characters that are replaced and
\* dropped was sanitized twice
C19_Witness ==
    /\ lib_pc = "resanitized"
    /\ lib_res.text = "_1_"

(***************************************************************************)
(* Transfer functions: a system Inport -> TransferFcn -> Outport is        *)
(* exported and its update body is lifted                                  *)
(***************************************************************************)

\* the largest coefficient of a numerator or denominator
MaxCoeff == 2

\* the text of a coefficient array as the block parameter holds it
coeff_text(cs) ==
    LET RECURSIVE items(_)
        items(n) == IF n = 0 THEN ""
                    ELSE items(n - 1) \o (IF n > 1 THEN " " ELSE "") \o format_coeff(cs[n])
    IN  "[" \o items(Len(cs)) \o "]"

\* the chain Inport -> TransferFcn -> Outport with the given coefficients
tf_system(num, den) ==
    LET sys == chain_system(<< "TransferFcn" >>, << "2" >>, "last") IN
    [sys EXCEPT !.blocks[2].parameters =
        [k \in {"Numerator", "Denominator"} |->
            IF k = "Numerator" THEN coeff_text(num) ELSE coeff_text(den)]]

\* proper transfer functions of order 1 and 2: the denominator has a
\* leading coefficient that is not 0, the numerator is not longer
TfSystems ==
    { tf_system(c[1], c[2]) :
        c \in UNION { (UNION { [1..n -> 0..MaxCoeff] : n \in 1..d })
                        \X { den \in [1..d -> 0..MaxCoeff] : den[1] # 0 } :
                      d \in 2..3 } }

InitTf ==
    /\ OpcIdle
    /\ LibIdle
    /\ top = "system_2"
    /\ \E sys \in TfSystems : systems = [id \in {"system_2"} |-> sys]
    /\ gen_pc = "start"
    /\ generated = NoParts
    /\ lifted = NoLift
    /\ prev_sorted_sids = << >>
    /\ call_stack = << >>
    /\ inline_code = << >>
    /\ element = NoElement
    /\ beyond = 0

SpecTf == InitTf /\ [][NextEmit]_vars

\* the product of two polynomials given by their coefficients
poly_mul(a, b) ==
    LET RECURSIVE term(_, _)
        term(k, i) ==
            IF i = 0 THEN 0
            ELSE term(k, i - 1)
                   + (IF k + 1 - i \in 1..Len(b) THEN a[i] * b[k + 1 - i] ELSE 0)
    IN  [k \in 1..(Len(a) + Len(b) - 1) |-> term(k, Len(a))]

\* a polynomial without its leading zero coefficients
RECURSIVE strip_zeros(_)
strip_zeros(p) == IF p # << >> /\ Head(p) = 0 THEN strip_zeros(Tail(p)) ELSE p

\* num / den and n / d are the same rational function: they differ by a
\* common factor
same_up_to_normalization(num, den, n, d) ==
    /\ strip_zeros(d) # << >>
    /\ strip_zeros(poly_mul(num, d)) = strip_zeros(poly_mul(n, den))

\* the TransferFcn blocks lifted with the name of blk
tf_lifted_as(blk) ==
    { i \in 1..Len(lifted.blocks) :
        /\ lifted.blocks[i].type = "TransferFcn"
        /\ lifted.blocks[i].name = blk.name }

\* C11: lifting the statements emitted for a TransferFcn of order 1 or 2
\* yields a TransferFcn whose Numerator and Denominator are those of the
\* block up to normalization
C11_TustinInvertible ==
    gen_pc = "lifted" =>
        \A b \in 1..Len(systems[top].blocks) :
            LET blk == systems[top].blocks[b]
                tf == parse_transfer_function(blk)
            IN  (blk.type = "TransferFcn" /\ tf.order \in {1, 2}) =>
                    \E i \in tf_lifted_as(blk) :
                        /\ DOMAIN lifted.blocks[i].parameters = {"Numerator", "Denominator"}
                        /\ same_up_to_normalization(tf.num, tf.den,
                               parse_coefficients(lifted.blocks[i].parameters["Numerator"]),
                               parse_coefficients(lifted.blocks[i].parameters["Denominator"]))

(***************************************************************************)
(* TransferFcn blocks with any Numerator and Denominator                   *)
(***************************************************************************)

\* the Numerator parameters: none, one and two coefficients, and the name
\* of a workspace variable alone or before a number
Numerators == { "[]", "[1]", "[2]", "[1 2]", "[2 1]", "[1 2 1]", "[K]", "[K 1]", "[1 K]" }

\* the Denominator parameters: none to four coefficients
Denominators == { "[]", "[2]", "[1 2]", "[1 2 1]", "[2 1 2]", "[1 2 1 2]" }

\* what the memory past the end of a vector may hold
Beyond == { 0, 3 }

\* the chain Inport -> TransferFcn -> Outport with the given parameters
tf_text_system(num, den) ==
    LET sys == chain_system(<< "TransferFcn" >>, << "2" >>, "last") IN
    [sys EXCEPT !.blocks[2].parameters =
        [k \in {"Numerator", "Denominator"} |-> IF k = "Numerator" THEN num ELSE den]]

InitTfAny ==
    /\ OpcIdle
    /\ LibIdle
    /\ top = "system_2"
    /\ \E num \in Numerators, den \in Denominators :
          systems = [id \in {"system_2"} |-> tf_text_system(num, den)]
    /\ gen_pc = "start"
    /\ generated = NoParts
    /\ lifted = NoLift
    /\ prev_sorted_sids = << >>
    /\ call_stack = << >>
    /\ inline_code = << >>
    /\ element = NoElement
    /\ beyond \in Beyond

SpecTfAny == InitTfAny /\ [][NextEmit]_vars

\* C27: the emission of a TransferFcn block reads no coefficient past the
\* end of the numerator or the denominator, whatever the two parameters
\* hold: an empty numerator, a symbolic one, a denominator of any length
C27_CoefficientsReadInBounds ==
    gen_pc # "start" =>
        \A b \in 1..Len(systems[top].blocks) :
            systems[top].blocks[b].type = "TransferFcn" =>
                ~reads_past_end(parse_transfer_function(systems[top].blocks[b]))

(***************************************************************************)
(* Blocks with any names                                                   *)
(***************************************************************************)

\* the names of the blocks: with a space, an underscore and a hyphen at the
\* same place, and with and without the underscore sanitize_name puts
\* before a digit
BlockNames == { "a b", "a_b", "a-b", "x", "1x", "_1x" }

\* the chain Inport -> types[1] -> types[2] -> Outport whose blocks have
\* the given names
named_system(types, names) ==
    LET sys == chain_system(types, << "2", "3" >>, "last") IN
    [sys EXCEPT !.blocks[2].name = names[1], !.blocks[3].name = names[2]]

InitNames ==
    /\ OpcIdle
    /\ LibIdle
    /\ top = "system_2"
    /\ \E types \in [1..2 -> {"Gain", "UnitDelay"}],
          names \in { n \in [1..2 -> BlockNames] : n[1] # n[2] } :
          systems = [id \in {"system_2"} |-> named_system(types, names)]
    /\ gen_pc = "start"
    /\ generated = NoParts
    /\ lifted = NoLift
    /\ prev_sorted_sids = << >>
    /\ call_stack = << >>
    /\ inline_code = << >>
    /\ element = NoElement
    /\ beyond = 0

SpecNames == InitNames /\ [][NextEmit]_vars

\* C28: whatever the names of the blocks, no two blocks of the exported
\* system have the same output variable, and no two state variables of
\* the generated code have the same name
C28_VariableNamesDistinct ==
    exported =>
        /\ \A b1, b2 \in inner_blocks :
               b1.sid # b2.sid =>
                   generated.signal_map[out_key(b1.sid, 1)]
                     # generated.signal_map[out_key(b2.sid, 1)]
        /\ \A i, j \in 1..Len(generated.state_vars) :
               i # j => generated.state_vars[i][1] # generated.state_vars[j][1]

(***************************************************************************)
(* oc_to_mdl run twice on one sidecar, the .oc files edited in between.    *)
(***************************************************************************)

\* the .oc files after an edit: the exported text, a renamed namespace
\* with a comment before it, and an edit that does not parse
EditedSources ==
    { "namespace m {}\n",
      "// edited\nnamespace n {}\n",
      "namespace m {\n" }

EditedDirs ==
    { [i \in 1..n |-> [name |-> "f" \o to_string(i) \o ".oc", readable |-> TRUE,
                        source |-> c[i]]] :
        n \in 1..MaxFiles, c \in [1..MaxFiles -> EditedSources] }

\* the files mdl_to_oc is run on: the header the emitter writes, a blank
\* line after each part
InitRerun ==
    /\ src_parts \in UNION { [1..n -> PartChoices] : n \in 1..MaxParts }
    /\ mdl = mdl_header \o parts_text(src_parts, "\n\n")
    /\ oc_ok = FALSE
    /\ opc_pc = "start"
    /\ parts_1 = EmptyMap
    /\ meta = [part_order |-> << >>, raw_parts |-> EmptyMap]
    /\ sidecar = to_json([part_order |-> << >>, raw_parts |-> EmptyMap])
    /\ mdl_out = ""
    /\ parts_2 = EmptyMap
    /\ oc_dir = << >>
    /\ oc_log = << >>
    /\ oc_exit = -1
    /\ oc_dir_2 = << >>
    /\ mdl_out_2 = ""
    /\ GenIdle
    /\ LibIdle

\* oc_to_mdl run on the exported directory after an edit of its .oc files,
\* and run again after another edit
RunOcToMdlOnEdits == oc_to_mdl_main({"exported", "written"}, EditedDirs)

NextRerun == RunMdlToOc \/ RunOcToMdlOnEdits

SpecRerun == InitRerun /\ [][NextRerun]_vars

\* C30: with the sidecar read, the file oc_to_mdl writes depends on the
\* sidecar alone: two runs on one sidecar whose .oc files all parse write
\* the same bytes, whatever the .oc files hold
C30_SidecarAloneDecides ==
    opc_pc = "written_again" => mdl_out_2 = mdl_out

\* both runs have written a file from a sidecar that lists parts, and a
\* file of the second run differs from the file of that name of the first
C30_Witness ==
    /\ opc_pc = "written_again"
    /\ from_json(sidecar).part_order # << >>
    /\ Len(oc_dir_2) = Len(oc_dir)
    /\ \E i \in 1..Len(oc_dir) : oc_dir_2[i].source # oc_dir[i].source
    /\ mdl_out # ""

====
